---- MODULE Spec2Model ----
(***************************************************************************)
(* A model of the booker-top discovery pipeline:                           *)
(*   - the Query Builder      (scrapers/google_search.py, _build_queries)  *)
(*   - the Search Aggregator  (scrapers/google_search.py, search_events)   *)
(*   - the Pipeline Orchestrator (core/search_orchestrator.py, run_search) *)
(*     over the searches table of db/database.py,                          *)
(*   - the Page Fetcher       (scrapers/page_scraper.py)                   *)
(*   - the Event Extractor    (scrapers/event_parser.py)                   *)
(*   - the Results Aggregator (core/search_orchestrator.py,                *)
(*     get_results_by_date)                                                *)
(*   - the Weather Enricher   (integrations/weather/open_meteo.py)         *)
(*   - the events and weather_days tables of db/database.py.               *)
(* Query texts are real strings, built by concatenation as the f-strings   *)
(* of the source build them (accented letters are written unaccented).     *)
(***************************************************************************)
EXTENDS Integers, Sequences, FiniteSets, TLC

\* ------------------------------------------------------------------------
\* Bounds of the model
\* ------------------------------------------------------------------------
\* date_to lies at most MaxSpan calendar months after the month of date_from
MaxSpan == 1
\* longest segment list passed to the Query Builder
MaxSegs == 2

\* ------------------------------------------------------------------------
\* Generic helpers on sequences
\* ------------------------------------------------------------------------
\* Python slice s[:n]
Take(s, n) == SubSeq(s, 1, IF Len(s) < n THEN Len(s) ELSE n)

RECURSIVE Flatten(_)
Flatten(ss) == IF ss = << >> THEN << >> ELSE Head(ss) \o Flatten(Tail(ss))

RECURSIVE SumSeq(_)
SumSeq(s) == IF s = << >> THEN 0 ELSE Head(s) + SumSeq(Tail(s))

Range(s) == {s[i] : i \in 1..Len(s)}

\* every sequence that enumerates the finite set S once (an iteration order)
Orders(S) == {o \in [1..Cardinality(S) -> S] : Range(o) = S}

\* ------------------------------------------------------------------------
\* Calendar dates (datetime values of the source), [y, m, d]
\* ------------------------------------------------------------------------
IsLeap(y) == (y % 4 = 0 /\ y % 100 # 0) \/ y % 400 = 0

DaysInMonth(y, m) ==
    IF m = 2 THEN (IF IsLeap(y) THEN 29 ELSE 28)
    ELSE IF m \in {4, 6, 9, 11} THEN 30 ELSE 31

ValidDate(dt) == dt.m \in 1..12 /\ dt.d >= 1 /\ dt.d <= DaysInMonth(dt.y, dt.m)

\* current <= end on datetime values
DateLE(a, b) ==
    \/ a.y < b.y
    \/ a.y = b.y /\ a.m < b.m
    \/ a.y = b.y /\ a.m = b.m /\ a.d <= b.d

\* ------------------------------------------------------------------------
\* Static tables of scrapers/google_search.py
\* ------------------------------------------------------------------------
month_names ==
    <<"January", "February", "March", "April", "May", "June", "July",
      "August", "September", "October", "November", "December">>

month_names_es ==
    <<"enero", "febrero", "marzo", "abril", "mayo", "junio", "julio",
      "agosto", "septiembre", "octubre", "noviembre", "diciembre">>

month_names_pt ==
    <<"janeiro", "fevereiro", "marco", "abril", "maio", "junho", "julho",
      "agosto", "setembro", "outubro", "novembro", "dezembro">>

\* (site_domain, search_terms); every search_terms template ends in {city},
\* so an entry holds the text that precedes the city.
PLATFORM_QUERIES ==
    ("AR" :> << <<"ra.co", "events ">>, <<"passline.com", "fiestas eventos ">>,
                <<"venti.com.ar", "eventos ">>, <<"allaccess.com.ar", "eventos fiestas ">>,
                <<"wearebombo.com", "fiestas ">>, <<"eventbrite.com.ar", "fiestas eventos noche ">>,
                <<"livepass.com.ar", "eventos ">>, <<"buenosaliens.com", "agenda fiestas ">>,
                <<"musicaelectronica.club", "eventos ">> >>)
 @@ ("ES" :> << <<"ra.co", "events ">>, <<"fourvenues.com", "discotecas fiestas ">>,
                <<"xceed.me", "fiestas clubs ">>, <<"feverup.com", "planes fiestas ">>,
                <<"dice.fm", "events ">>, <<"wearebombo.com", "fiestas ">> >>)
 @@ ("US" :> << <<"ra.co", "events ">>, <<"eventbrite.com", "parties nightlife ">>,
                <<"dice.fm", "events ">>, <<"shotgun.live", "events parties ">>,
                <<"feverup.com", "things to do parties ">>, <<"songkick.com", "concerts ">> >>)
 @@ ("GB" :> << <<"ra.co", "events ">>, <<"dice.fm", "events ">>,
                <<"shotgun.live", "events ">>, <<"skiddle.com", "club nights ">>,
                <<"feverup.com", "things to do ">>, <<"songkick.com", "concerts ">> >>)
 @@ ("DE" :> << <<"ra.co", "events ">>, <<"dice.fm", "events ">>,
                <<"eventbrite.de", "party nachtleben ">> >>)
 @@ ("FR" :> << <<"ra.co", "events ">>, <<"dice.fm", "events ">>,
                <<"shotgun.live", "soirees ">> >>)
 @@ ("NL" :> << <<"ra.co", "events ">>, <<"dice.fm", "events ">>,
                <<"partyflock.nl", "feesten ">> >>)
 @@ ("BR" :> << <<"ra.co", "events ">>, <<"eventbrite.com.br", "festas baladas ">>,
                <<"shotgun.live", "events ">>, <<"sympla.com.br", "festas eventos ">>,
                <<"wearebombo.com", "festas ">> >>)
 @@ ("CL" :> << <<"ra.co", "events ">>, <<"passline.com", "fiestas eventos ">>,
                <<"eventbrite.cl", "fiestas eventos ">>, <<"wearebombo.com", "fiestas ">> >>)
 @@ ("CO" :> << <<"ra.co", "events ">>, <<"eventbrite.co", "fiestas eventos rumbas ">>,
                <<"wearebombo.com", "fiestas ">> >>)
 @@ ("MX" :> << <<"ra.co", "events ">>, <<"eventbrite.com.mx", "fiestas eventos antros ">>,
                <<"boletia.com", "fiestas eventos ">>, <<"wearebombo.com", "fiestas ">> >>)
 @@ ("PE" :> << <<"ra.co", "events ">>, <<"joinnus.com", "fiestas eventos ">>,
                <<"wearebombo.com", "fiestas ">> >>)
 @@ ("UY" :> << <<"ra.co", "events ">>, <<"passline.com", "fiestas eventos ">>,
                <<"wearebombo.com", "fiestas ">> >>)
 @@ ("_default" :> << <<"ra.co", "events ">>, <<"eventbrite.com", "parties events ">>,
                      <<"dice.fm", "events ">>, <<"feverup.com", "things to do ">>,
                      <<"songkick.com", "concerts ">> >>)

\* countries that get the Spanish template family
SpanishCountries == {"ES", "AR", "CL", "CO", "MX", "PE", "UY"}

\* caps of the final slice general[:12] + platform[:9]
GeneralCap == 12
PlatformCap == 9

\* ------------------------------------------------------------------------
\* _build_queries
\* ------------------------------------------------------------------------
\* f"{month_names[current.month]} {current.year}"
MonthStr(names, my) == names[my[1]] \o " " \o ToString(my[2])

\* current.replace(month=current.month + 1), or the January of the next year
NextMonth(current) ==
    IF current.m = 12
    THEN [y |-> current.y + 1, m |-> 1, d |-> current.d]
    ELSE [y |-> current.y, m |-> current.m + 1, d |-> current.d]

\* The loop "while current <= end": collects the <<month, year>> of current,
\* then steps current by one month keeping its day of month.  datetime.replace
\* raises ValueError when the day does not exist in the target month.
RECURSIVE MonthLoop(_, _, _)
MonthLoop(current, end, acc) ==
    IF ~DateLE(current, end)
    THEN [raised |-> FALSE, months |-> acc]
    ELSE LET acc2 == acc \cup {<<current.m, current.y>>}
             nxt  == NextMonth(current)
         IN  IF ~ValidDate(nxt)
             THEN [raised |-> TRUE, months |-> acc2]
             ELSE MonthLoop(nxt, end, acc2)

Q(text, type) == [query |-> text, type |-> type]

\* the queries appended for one element of months_en
EnglishBlock(city, month, segments) ==
    << Q("events parties " \o city \o " " \o month, "general"),
       Q("club nights DJ sets " \o city \o " " \o month, "general"),
       Q("nightlife parties " \o city \o " " \o month \o " tickets", "general"),
       Q("concerts live music " \o city \o " " \o month, "general") >>
    \o [i \in 1..Len(segments) |->
            Q(segments[i] \o " party events " \o city \o " " \o month, "segment")]

\* the queries appended for one element of months_es
SpanishBlock(city, month, segments) ==
    << Q("fiestas eventos " \o city \o " " \o month, "general_es"),
       Q("fiestas electronicas DJ " \o city \o " " \o month, "general_es"),
       Q("boliches clubs noche " \o city \o " " \o month, "general_es"),
       Q("recitales shows " \o city \o " " \o month \o " entradas", "general_es") >>
    \o [i \in 1..Len(segments) |->
            Q("fiestas " \o segments[i] \o " " \o city \o " " \o month, "segment_es")]

\* the queries appended for one element of months_pt
PortugueseBlock(city, month) ==
    << Q("festas baladas " \o city \o " " \o month, "general_pt"),
       Q("eventos noite DJ " \o city \o " " \o month, "general_pt") >>

\* PLATFORM_QUERIES.get(country, PLATFORM_QUERIES["_default"])
PlatformEntries(country) ==
    IF country \in DOMAIN PLATFORM_QUERIES
    THEN PLATFORM_QUERIES[country] ELSE PLATFORM_QUERIES["_default"]

PlatformBlock(city, country) ==
    LET entries == PlatformEntries(country)
    IN  [i \in 1..Len(entries) |->
            Q("site:" \o entries[i][1] \o " " \o entries[i][2] \o city, "platform")]

\* the loop over general[:12] + platform[:9] that keeps the first query of
\* each text
DedupNone(qs) == qs
RECURSIVE DedupFrom(_, _, _)
DedupFrom(qs, seen, deduped) ==
    IF qs = << >> THEN deduped
    ELSE IF Head(qs).query \in seen
         THEN DedupFrom(Tail(qs), seen, deduped)
         ELSE DedupFrom(Tail(qs), seen \cup {Head(qs).query}, Append(deduped, Head(qs)))

Dedup(qs) == DedupFrom(qs, {}, << >>)

IsPlatform(q) == q.type = "platform"
NotPlatform(q) == q.type # "platform"

\* the list "queries" before the cap, for given iteration orders of the sets
\* months_en, months_es and months_pt (a Python set of strings iterates in
\* hash order, which differs from process to process)
Constructed(city, country, segments, ord_en, ord_es, ord_pt) ==
    Flatten([i \in 1..Len(ord_en) |->
                EnglishBlock(city, MonthStr(month_names, ord_en[i]), segments)])
    \o (IF country \in SpanishCountries
        THEN Flatten([i \in 1..Len(ord_es) |->
                SpanishBlock(city, MonthStr(month_names_es, ord_es[i]), segments)])
        ELSE << >>)
    \o (IF country = "BR"
        THEN Flatten([i \in 1..Len(ord_pt) |->
                PortugueseBlock(city, MonthStr(month_names_pt, ord_pt[i]))])
        ELSE << >>)
    \o PlatformBlock(city, country)

\* the returned list "deduped"
CapAndDedup(queries) ==
    Dedup(Take(SelectSeq(queries, NotPlatform), GeneralCap)
          \o Take(SelectSeq(queries, IsPlatform), PlatformCap))

\* _build_queries: [raised, queries]; raised is the ValueError of the month loop
build_queries(city, country, date_from, date_to, segments, ord_en, ord_es, ord_pt) ==
    LET loop == MonthLoop(date_from, date_to, {})
    IN  IF loop.raised
        THEN [raised |-> TRUE, queries |-> << >>]
        ELSE [raised |-> FALSE,
              queries |-> CapAndDedup(
                  Constructed(city, country, segments, ord_en, ord_es, ord_pt))]

\* the iteration orders the three month sets can take for a date range
MonthOrders(date_from, date_to) == Orders(MonthLoop(date_from, date_to, {}).months)


\* ------------------------------------------------------------------------
\* State
\* ------------------------------------------------------------------------
VARIABLES
    \* Query Builder: one call of _build_queries
    qb_in,          \* its arguments
    qb_out,         \* [done, raised, queries]: what the call gave
    \* Search Aggregator: one call of search_events
    sa_in,          \* [api_key, city, country, queries]: credential, arguments, built queries
    sa_pc,          \* "start" | "loop" | "done" | "raised"
    sa_resp,        \* the result list _serper_search gave for each query issued so far
    sa_failed,      \* positions of the queries whose provider call failed
    seen_urls,      \* local seen_urls
    all_results,    \* local all_results
    query_debug,    \* local query_debug
    \* Event Extractor: one call of parse_events_batch
    ep_in,          \* [api_key, raw_keywords, date_from, pages]
    ep_out,         \* [done, raised, all_events, deduped, events]
    \* Weather Enricher: one call of get_weather_for_range
    wx_in,          \* [southern, today, date_from, date_to, forecast, archive]
    wx_out,         \* [done, results]
    \* one call of _calc_outdoor_score
    sc_in,          \* [temp_max, temp_min, precip_prob, wind_kmh]
    sc_out,         \* [done, score]
    \* Page Fetcher: one call of scrape_multiple
    ps_in,          \* [urls, max_pages, has_playwright]
    ps_out,         \* [done, i, results, log]
    \* Results Aggregator: one call of get_results_by_date
    rd_in,          \* the search_id asked for, 0 before the call
    rd_out,         \* [done, results]
    \* a client of the database: the insert calls made so far
    db_log,
    \* the database
    searches,       \* rows of the searches table, the id being the position
    events,         \* rows of the events table
    weather_days,   \* rows of the weather_days table
    \* Pipeline Orchestrator: one call of run_search
    pc,             \* the stage the call is at
    args,           \* its arguments and environment
    search_id,      \* local search_id
    debug,          \* local debug, the trace being built
    loc,            \* the other locals
    exc,            \* the exception e caught by the handler
    outcome,        \* what left run_search: nothing yet, a return or a raise
    progress,       \* the fractions the progress sink received
    save_calls      \* the save_debug_log calls made so far: [ok, log]

qb_vars == <<qb_in, qb_out>>
sa_vars == <<sa_in, sa_pc, sa_resp, sa_failed, seen_urls, all_results, query_debug>>
db_vars == <<searches, events, weather_days>>
or_vars == <<db_vars, pc, args, search_id, debug, loc, exc, outcome, progress, save_calls>>
run_vars == <<searches, pc, args, search_id, debug, loc, exc, outcome, progress, save_calls>>
ep_vars == <<ep_in, ep_out>>
wx_vars == <<wx_in, wx_out>>
sc_vars == <<sc_in, sc_out>>
ps_vars == <<ps_in, ps_out>>
rd_vars == <<rd_in, rd_out>>
vars == <<qb_vars, sa_vars, or_vars, ep_vars, wx_vars, sc_vars, ps_vars, rd_vars, db_log>>

\* ------------------------------------------------------------------------
\* Query Builder as a state machine: a call with arguments drawn from
\* bounded sets
\* ------------------------------------------------------------------------
QBCities == {"Berlin"}
QBCountries == {"AR", "BR", "DE", "ZZ"}
SegmentChoices == {"electronic", "latin"}
StartYears == {2025}
DayChoices == {1, 15, 31}

SegmentLists == UNION {[1..n -> SegmentChoices] : n \in 0..MaxSegs}

StartDates ==
    {dt \in [y : StartYears, m : 1..12, d : DayChoices] : ValidDate(dt)}

\* number of calendar months from the month of a to the month of b
MonthsBetween(a, b) == (b.y * 12 + b.m) - (a.y * 12 + a.m)

EndDates(date_from) ==
    {dt \in [y : {date_from.y, date_from.y + 1}, m : 1..12, d : DayChoices] :
        /\ ValidDate(dt)
        /\ DateLE(date_from, dt)
        /\ MonthsBetween(date_from, dt) <= MaxSpan}

QBInputs ==
    UNION {{[city |-> c, country |-> k, date_from |-> f, date_to |-> t, segments |-> s] :
                c \in QBCities, k \in QBCountries, t \in EndDates(f), s \in SegmentLists} :
           f \in StartDates}

QBIdleIn ==
    [city |-> "Berlin", country |-> "DE",
     date_from |-> [y |-> 2025, m |-> 1, d |-> 1],
     date_to |-> [y |-> 2025, m |-> 1, d |-> 1], segments |-> << >>]

QBNotCalled == [done |-> FALSE, raised |-> FALSE, queries |-> << >>]

QBInit ==
    /\ qb_in \in QBInputs
    /\ qb_out = QBNotCalled

QBIdle == qb_in = QBIdleIn /\ qb_out = QBNotCalled

\* the call _build_queries(city, country, date_from, date_to, segments); a
\* month set is iterated only on the branch of its language
BuildQueriesCall ==
    /\ ~qb_out.done
    /\ \E ord_en \in MonthOrders(qb_in.date_from, qb_in.date_to) :
       \E ord_es \in (IF qb_in.country \in SpanishCountries
                      THEN MonthOrders(qb_in.date_from, qb_in.date_to) ELSE {<< >>}) :
       \E ord_pt \in (IF qb_in.country = "BR"
                      THEN MonthOrders(qb_in.date_from, qb_in.date_to) ELSE {<< >>}) :
          LET r == build_queries(qb_in.city, qb_in.country, qb_in.date_from,
                                 qb_in.date_to, qb_in.segments, ord_en, ord_es, ord_pt)
          IN  qb_out' = [done |-> TRUE, raised |-> r.raised, queries |-> r.queries]
    /\ UNCHANGED qb_in

\* ------------------------------------------------------------------------
\* search_events
\* ------------------------------------------------------------------------
\* bounds: queries issued in one call, items in one search response
MaxQueries == 2
MaxResults == 2

\* links a response item can carry; "" is item.get("link", "") of an item
\* without a link
Links == {"", "https://ra.co/events/1", "https://dice.fm/event/2"}

LinkSeqs(n) == UNION {[1..k -> Links] : k \in 0..n}

\* item.get("link", "") of an item whose "link" is a JSON array or object:
\* a list or dict, which cannot be a member of the set seen_urls
UnhashableLink == "[unhashable]"

\* bodies that parse as JSON objects with a list of items, one item carrying
\* a link that is not a scalar
MalformedItems ==
    {[ok |-> TRUE, organic |-> <<UnhashableLink>>, events |-> << >>],
     [ok |-> TRUE, organic |-> <<"https://ra.co/events/1", UnhashableLink>>, events |-> << >>]}

\* A response of the search provider: the call failed inside _serper_search
\* (network error, HTTP error status, body that is not JSON or not of the
\* expected shape), or gave organic and event-typed items. An item is
\* modelled by its link.
Responses ==
    {[ok |-> FALSE, organic |-> << >>, events |-> << >>]}
    \cup {r \in [ok : {TRUE}, organic : LinkSeqs(MaxResults), events : LinkSeqs(1)] :
            Len(r.organic) + Len(r.events) <= MaxResults}
    \cup MalformedItems

\* _serper_search: the result list of one query, [] when the call fails
serper_search(resp) ==
    IF ~resp.ok THEN << >>
    ELSE [i \in 1..Len(resp.organic) |->
             [link |-> resp.organic[i], source |-> "serper"]]
         \o [i \in 1..Len(resp.events) |->
             [link |-> resp.events[i], source |-> "serper_event"]]

\* the inner loop "for r in results" on [seen, all, new, raised]; the test
\* "url not in seen_urls" raises TypeError on a link that is not hashable
AddResultsNoSeen(results, acc) ==
    [seen |-> acc.seen, all |-> acc.all \o results, new |-> acc.new + Len(results),
     raised |-> acc.raised]
RECURSIVE AddResults(_, _)
AddResults(results, acc) ==
    IF results = << >> THEN acc
    ELSE LET r == Head(results)
         IN  IF r.link = UnhashableLink
             THEN [acc EXCEPT !.raised = TRUE]
             ELSE IF r.link \notin acc.seen
                  THEN AddResults(Tail(results),
                                  [seen |-> acc.seen \cup {r.link},
                                   all  |-> Append(acc.all, r),
                                   new  |-> acc.new + 1,
                                   raised |-> FALSE])
                  ELSE AddResults(Tail(results), acc)

\* one iteration of "for query_info in queries" on [seen, all, debug, raised];
\* the trace entry is appended after the inner loop
SearchStep(st, query_info, results) ==
    LET acc == AddResults(results, [seen |-> st.seen, all |-> st.all, new |-> 0,
                                    raised |-> FALSE])
    IN  [seen  |-> acc.seen,
         all   |-> acc.all,
         debug |-> IF acc.raised THEN st.debug
                   ELSE Append(st.debug,
                               [query |-> query_info.query,
                                result_count |-> Len(results),
                                new_unique |-> acc.new,
                                source_type |-> query_info.type]),
         raised |-> acc.raised]

\* city.lower().replace(' ', '-') for the cities of the model
Slug(city) ==
    CASE city = "Berlin" -> "berlin"
      [] city = "Madrid" -> "madrid"
      [] OTHER -> "city"

\* _fallback_search: the platform pages returned without a credential
fallback_search(city, country) ==
    << [link |-> "https://ra.co/events/" \o Slug(city), source |-> "fallback"],
       [link |-> "https://www.eventbrite.com/d/" \o Slug(city) \o "/events/", source |-> "fallback"],
       [link |-> "https://feverup.com/en/" \o Slug(city), source |-> "fallback"] >>
    \o (IF country = "ES"
        THEN << [link |-> "https://fourvenues.com/", source |-> "fallback"],
                [link |-> "https://xceed.me/en/" \o Slug(city) \o "/events", source |-> "fallback"] >>
        ELSE << >>)
    \o (IF country = "AR"
        THEN << [link |-> "https://www.passline.com/", source |-> "fallback"] >>
        ELSE << >>)

\* the trace of the path without a credential: one synthetic entry
FallbackDebug(results) ==
    << [query |-> "fallback (no API key)", result_count |-> Len(results),
        source_type |-> "fallback"] >>

\* search_events from the loop on: the fold of SearchStep over the queries,
\* resps[i] being the response to queries[i]
RECURSIVE SearchLoop(_, _, _)
SearchLoop(st, queries, resps) ==
    IF queries = << >> \/ st.raised THEN st
    ELSE SearchLoop(SearchStep(st, Head(queries), serper_search(Head(resps))),
                    Tail(queries), Tail(resps))

\* The queries of a call: the Query Builder's output for Berlin or Madrid in
\* March 2025, cut to the first n queries.
SAQueries(city, country, n) ==
    Take(build_queries(city, country, [y |-> 2025, m |-> 3, d |-> 1],
                       [y |-> 2025, m |-> 3, d |-> 15], << >>,
                       << <<3, 2025>> >>, << <<3, 2025>> >>, << <<3, 2025>> >>).queries, n)

SAInputs ==
    {[api_key |-> TRUE, city |-> "Berlin", country |-> "DE",
      queries |-> SAQueries("Berlin", "DE", n)] : n \in 0..MaxQueries}
    \cup {[api_key |-> FALSE, city |-> c[1], country |-> c[2], queries |-> << >>] :
            c \in {<<"Berlin", "DE">>, <<"Madrid", "ES">>, <<"Buenos Aires", "AR">>}}

SAIdleIn == [api_key |-> TRUE, city |-> "Berlin", country |-> "DE", queries |-> << >>]

SALocalsInit ==
    /\ sa_resp = << >>
    /\ sa_failed = {}
    /\ seen_urls = {}
    /\ all_results = << >>
    /\ query_debug = << >>

SAInit == sa_in \in SAInputs /\ sa_pc = "start" /\ SALocalsInit

SAIdle == sa_in = SAIdleIn /\ sa_pc = "start" /\ SALocalsInit

\* lines 192-196: no credential, the static fallback list
SAFallback ==
    /\ sa_pc = "start"
    /\ ~sa_in.api_key
    /\ all_results' = fallback_search(sa_in.city, sa_in.country)
    /\ query_debug' = FallbackDebug(all_results')
    /\ sa_pc' = "done"
    /\ UNCHANGED <<sa_in, sa_resp, sa_failed, seen_urls>>

\* lines 198-201: build the queries, empty accumulators
SABegin ==
    /\ sa_pc = "start"
    /\ sa_in.api_key
    /\ sa_pc' = "loop"
    /\ UNCHANGED <<sa_in, sa_resp, sa_failed, seen_urls, all_results, query_debug>>

\* lines 203-220: one query issued and merged; a TypeError of the inner
\* loop leaves search_events
SAQuery ==
    /\ sa_pc = "loop"
    /\ Len(sa_resp) < Len(sa_in.queries)
    /\ \E resp \in Responses :
          LET results == serper_search(resp)
              st == SearchStep([seen |-> seen_urls, all |-> all_results, debug |-> query_debug],
                               sa_in.queries[Len(sa_resp) + 1], results)
          IN  /\ sa_resp' = Append(sa_resp, results)
              /\ sa_failed' = IF resp.ok THEN sa_failed
                              ELSE sa_failed \cup {Len(sa_resp) + 1}
              /\ seen_urls' = st.seen
              /\ all_results' = st.all
              /\ query_debug' = st.debug
              /\ sa_pc' = IF st.raised THEN "raised" ELSE "loop"
    /\ UNCHANGED sa_in

\* line 222: return all_results, query_debug
SAReturn ==
    /\ sa_pc = "loop"
    /\ Len(sa_resp) = Len(sa_in.queries)
    /\ sa_pc' = "done"
    /\ UNCHANGED <<sa_in, sa_resp, sa_failed, seen_urls, all_results, query_debug>>

\* ------------------------------------------------------------------------
\* run_search: tables and external collaborators
\* ------------------------------------------------------------------------
\* rows of the cities table (seed order gives the ids): Madrid and Berlin
CITIES ==
    (3 :> [name |-> "Madrid", country |-> "ES"])
 @@ (9 :> [name |-> "Berlin", country |-> "DE"])

\* a city id of no row
UnknownCityId == 99

DIRECT_URLS ==
    ("Madrid" :> << "https://www.eventbrite.es/d/spain--madrid/fiestas/",
                    "https://xceed.me/en/madrid/events" >>)
 @@ ("Berlin" :> << "https://www.eventbrite.de/d/germany--berlin/nachtleben/" >>)

\* DIRECT_URLS.get(city, [])
get_direct_urls(city) ==
    IF city \in DOMAIN DIRECT_URLS THEN DIRECT_URLS[city] ELSE << >>

\* max_pages of the bulk fetch of search results
BulkCap == 25

\* progress fractions handed to the progress sink, in percent
P_Search == 10
P_Direct == 20
P_Bulk == 35
P_Extract == 50
P_Weather == 80
P_Done == 100

\* the date ranges of the modelled calls; the second one starts on a 31st
RunRanges ==
    { <<[y |-> 2025, m |-> 3, d |-> 1],  [y |-> 2025, m |-> 3, d |-> 3]>>,
      <<[y |-> 2025, m |-> 1, d |-> 31], [y |-> 2025, m |-> 2, d |-> 2]>>,
      <<[y |-> 2025, m |-> 3, d |-> 30], [y |-> 2025, m |-> 4, d |-> 1]>> }

\* arguments of a call and the environment it runs in: api_key is
\* SERPER_API_KEY being set, callback is progress_callback being given
RunInputs ==
    [city_id : DOMAIN CITIES \cup {UnknownCityId},
     range : RunRanges,
     segments : {<< >>, <<"electronic">>},
     api_key : BOOLEAN,
     callback : BOOLEAN]

NoError == ""

\* the dict "debug" of lines 38-49 (events_by_source and top_domains, two
\* derived counts, are left out); error is the key added by the handler
EmptyDebug ==
    [queries |-> << >>, search_results_total |-> 0, direct_urls_scraped |-> 0,
     scrape_attempts |-> << >>, scrape_success |-> 0, scrape_fail |-> 0,
     ai_input_pages |-> 0, events_extracted |-> 0, error |-> NoError]

\* the locals of run_search
EmptyLocals ==
    [search_results |-> << >>, direct_pages |-> << >>, scraped_pages |-> << >>,
     events |-> << >>, weather_data |-> << >>, i |-> 0]

\* what leaves run_search
NoOutcome == [kind |-> "none", search_id |-> 0, exc |-> NoError]
Returned(id) == [kind |-> "return", search_id |-> id, exc |-> NoError]
Raised(e) == [kind |-> "raise", search_id |-> 0, exc |-> e]

\* exceptions, named by the place that raises them
E_CityNotFound == "ValueError: City not found"
E_BuildQueries == "ValueError: day is out of range for month"
E_Extract == "AttributeError: 'int' object has no attribute 'lower'"
E_Create == "sqlite3.Error: create_search"
E_InsertEvent == "sqlite3.Error: insert_event"
E_InsertWeather == "sqlite3.Error: insert_weather_day"
E_SaveLog == "sqlite3.Error: save_debug_log"
E_MarkCompleted == "sqlite3.Error: update_search_status(completed)"
E_MarkFailed == "sqlite3.Error: update_search_status(failed)"

\* --- the search provider as seen by a run: "down" fails every query,
\* "mixed" fails the first query, answers the next two with overlapping
\* links, one of them a direct URL of the city and one missing, and the
\* fourth with more new links than the bulk fetch takes
ProviderPatterns == {"down", "mixed"}

ManyLinks == [k \in 1..(BulkCap + 1) |-> "https://www.passline.com/e/" \o ToString(k)]

ProviderResponse(pattern, i, city) ==
    IF pattern = "mixed" /\ i = 4
    THEN [ok |-> TRUE, organic |-> ManyLinks, events |-> << >>]
    ELSE IF pattern = "mixed" /\ i = 2
    THEN [ok |-> TRUE,
          organic |-> << Head(get_direct_urls(city)), "https://ra.co/events/1" >>,
          events |-> << >>]
    ELSE IF pattern = "mixed" /\ i = 3
    THEN [ok |-> TRUE,
          organic |-> << "https://ra.co/events/1", "" >>,
          events |-> << "https://dice.fm/event/2" >>]
    ELSE IF pattern = "mixed" /\ i > 3
    THEN [ok |-> TRUE, organic |-> << >>, events |-> << >>]
    ELSE [ok |-> FALSE, organic |-> << >>, events |-> << >>]

\* search_events with a credential, for built queries and a provider pattern
search_events(queries, pattern, city) ==
    SearchLoop([seen |-> {}, all |-> << >>, debug |-> << >>, raised |-> FALSE], queries,
               [i \in 1..Len(queries) |-> ProviderResponse(pattern, i, city)])

\* --- scrape_multiple: the attempted URLs are urls[:max_pages]; the pages
\* returned are those of the URLs that gave content, in input order
ScrapeOutcomes(urls, max_pages) ==
    LET attempted == Take(urls, max_pages)
    IN  { {}, Range(attempted),
          Range(attempted) \ (IF attempted = << >> THEN {} ELSE {attempted[1]}) }

scrape_multiple(urls, max_pages, ok) ==
    LET attempted == Take(urls, max_pages)
        Good(u) == u \in ok
        good == SelectSeq(attempted, Good)
    IN  [i \in 1..Len(good) |-> [url |-> good[i], content |-> "text"]]

\* urls = [r["link"] for r in search_results if r.get("link")], without the
\* direct URLs
BulkUrlsWithDirect(search_results, direct_urls) ==
    LET links == [i \in 1..Len(search_results) |-> search_results[i].link]
        Wanted(u) == u # ""
    IN  SelectSeq(links, Wanted)
BulkUrls(search_results, direct_urls) ==
    LET links == [i \in 1..Len(search_results) |-> search_results[i].link]
        Wanted(u) == u # "" /\ u \notin Range(direct_urls)
    IN  SelectSeq(links, Wanted)

\* _build_serper_digest gives a text only when it is longer than 50
\* characters: some result carries a link (titles and snippets are empty in
\* the model)
HasDigest(search_results) ==
    \E i \in 1..Len(search_results) : search_results[i].link # ""

AllPages(loc_) ==
    loc_.direct_pages \o loc_.scraped_pages
    \o (IF HasDigest(loc_.search_results)
        THEN << [url |-> "google-search-results", content |-> "digest"] >>
        ELSE << >>)

\* --- parse_events_batch: event drafts; "NULL" stands for None
NULL == "NULL"

DateStr(dt) ==
    ToString(dt.y) \o "-" \o (IF dt.m < 10 THEN "0" ELSE "") \o ToString(dt.m)
                   \o "-" \o (IF dt.d < 10 THEN "0" ELSE "") \o ToString(dt.d)

\* is_own_event is FALSE for a draft that brand flagging did not mark, the
\* key being absent or False
Draft(name, date, venue) ==
    [name |-> name, date |-> date, venue_name |-> venue, segment |-> "other",
     is_own_event |-> FALSE]

\* flag_own_events found a brand keyword in the draft
Flagged(draft) == [draft EXCEPT !.is_own_event = TRUE]

\* the lists the extractor can give for a non-empty page list: none, one
\* event, one event marked as own-event, an event with and one without
\* venue, an event and a draft without name
ExtractOutcomes(pages, date_from) ==
    IF pages = << >> THEN { << >> }
    ELSE { << >>,
           << Draft("Techno Night", DateStr(date_from), "Club A") >>,
           << Flagged(Draft("ACME Rooftop Party", DateStr(date_from), "Club A")) >>,
           << Draft("Techno Night", DateStr(date_from), "Club A"),
              Draft("Open Air", DateStr(date_from), NULL) >>,
           << Draft("Open Air", DateStr(date_from), NULL),
              Draft(NULL, DateStr(date_from), "Club A") >> }

\* --- get_weather_for_range: the next calendar day and the days of a range
NextDay(dt) ==
    IF dt.d < DaysInMonth(dt.y, dt.m) THEN [dt EXCEPT !.d = dt.d + 1]
    ELSE IF dt.m < 12 THEN [y |-> dt.y, m |-> dt.m + 1, d |-> 1]
    ELSE [y |-> dt.y + 1, m |-> 1, d |-> 1]

RECURSIVE DaysOf(_, _)
DaysOf(current, date_to) ==
    IF ~DateLE(current, date_to) THEN << >>
    ELSE << current >> \o DaysOf(NextDay(current), date_to)

\* ------------------------------------------------------------------------
\* integrations/weather/open_meteo.py
\* ------------------------------------------------------------------------
\* bound: date_to lies at most MaxDays days after date_from
MaxDays == 2

\* forecast_limit = today + timedelta(days=14)
ForecastDays == 14

\* --- _calc_outdoor_score on integers. (temp_max or 22) takes the default
\* for None and for 0 alike; temp_avg is compared through its double, the
\* sum, so that no division is needed.
TempMaxDefault == 22
TempMinDefault == 15

OrDefault(v, default) == IF v = 0 THEN default ELSE v

TempPenalty(sum) ==
    IF sum < 20 THEN 40
    ELSE IF sum < 30 THEN 20
    ELSE IF sum < 36 THEN 5
    ELSE IF sum > 70 THEN 35
    ELSE IF sum > 60 THEN 15
    ELSE 0

RainPenalty(precip_prob) ==
    IF precip_prob > 70 THEN 35
    ELSE IF precip_prob > 50 THEN 20
    ELSE IF precip_prob > 30 THEN 10
    ELSE 0

WindPenalty(wind_kmh) ==
    IF wind_kmh > 40 THEN 25
    ELSE IF wind_kmh > 25 THEN 10
    ELSE 0

\* max(0, min(100, score))
Clamp(score) == IF score < 0 THEN 0 ELSE IF score > 100 THEN 100 ELSE score

TempSum(temp_max, temp_min) ==
    OrDefault(temp_max, TempMaxDefault) + OrDefault(temp_min, TempMinDefault)

calc_outdoor_score(temp_max, temp_min, precip_prob, wind_kmh) ==
    Clamp(100 - TempPenalty(TempSum(temp_max, temp_min))
              - RainPenalty(precip_prob) - WindPenalty(wind_kmh))

\* --- _outdoor_recommendation
outdoor_recommendation_flat(score) == "EITHER"
outdoor_recommendation(score) ==
    IF score >= 75 THEN "OUTDOOR"
    ELSE IF score >= 50 THEN "EITHER"
    ELSE "INDOOR"

\* --- _fallback_estimate
temp_by_month ==
    <<5, 7, 12, 16, 20, 25, 28, 27, 23, 17, 10, 6>>

EstimateScore == 60

fallback_estimate(dt, southern) ==
    LET month == IF southern THEN ((dt.m + 5) % 12) + 1 ELSE dt.m
        base_temp == temp_by_month[month]
    IN  [date |-> DateStr(dt),
         temp_max_c |-> base_temp + 4,
         temp_min_c |-> base_temp - 4,
         precip_prob |-> 30,
         wind_kmh |-> 15,
         outdoor_score |-> EstimateScore,
         recommendation |-> "EITHER",
         data_type |-> "estimate"]

\* --- _fetch_forecast: one record per entry of daily.time of the response
\* (None for the precipitation or the wind of a day is read as 0)
ForecastRecord(day) ==
    LET score == calc_outdoor_score(day.temp_max, day.temp_min, day.precip_prob, day.wind)
    IN  [date |-> DateStr(day.date),
         temp_max_c |-> day.temp_max,
         temp_min_c |-> day.temp_min,
         precip_prob |-> day.precip_prob,
         wind_kmh |-> day.wind,
         outdoor_score |-> score,
         recommendation |-> outdoor_recommendation(score),
         data_type |-> "forecast"]

fetch_forecast(resp) == [i \in 1..Len(resp.daily) |-> ForecastRecord(resp.daily[i])]

\* --- get_weather_for_range
RECURSIVE AddDays(_, _)
AddDays(dt, n) == IF n = 0 THEN dt ELSE AddDays(NextDay(dt), n - 1)

InForecast(today, current) ==
    DateLE(today, current) /\ DateLE(current, AddDays(today, ForecastDays))

forecast_dates(today, date_from, date_to) ==
    LET Near(current) == InForecast(today, current)
    IN  SelectSeq(DaysOf(date_from, date_to), Near)

fallback_dates(today, date_from, date_to) ==
    LET Far(current) == ~InForecast(today, current)
    IN  SelectSeq(DaysOf(date_from, date_to), Far)

Estimates(days, southern) ==
    [i \in 1..Len(days) |-> fallback_estimate(days[i], southern)]

\* resp is what the forecast API answers when it is called
get_weather_for_range(southern, today, date_from, date_to, resp) ==
    LET near == forecast_dates(today, date_from, date_to)
        far == fallback_dates(today, date_from, date_to)
    IN  (IF near = << >> THEN << >>
         ELSE IF resp.ok THEN fetch_forecast(resp)
         ELSE Estimates(near, southern))
        \o Estimates(far, southern)

\* the lists the Weather Enricher gives run_search when the range starts
\* today: the forecast fails (an estimate for every day), it answers with
\* every day, or it answers without days
MildDay(dt) ==
    [date |-> dt, temp_max |-> 24, temp_min |-> 18, precip_prob |-> 10, wind |-> 10]

WeatherOutcomes(date_from, date_to) ==
    LET days == DaysOf(date_from, date_to)
    IN  { get_weather_for_range(FALSE, date_from, date_from, date_to, resp) :
            resp \in { [ok |-> FALSE, daily |-> << >>],
                       [ok |-> TRUE, daily |-> [i \in 1..Len(days) |-> MildDay(days[i])]],
                       [ok |-> TRUE, daily |-> << >>] } }

\* ------------------------------------------------------------------------
\* db/database.py: the statements run_search executes
\* ------------------------------------------------------------------------
\* INSERT INTO searches (..., status) VALUES (..., 'running'); debug_log
\* takes its default '{}', modelled as the empty sequence
NewSearch(tbl, args_) ==
    Append(tbl, [city_id |-> args_.city_id, status |-> "running", debug_log |-> << >>])

\* UPDATE searches SET status = ? WHERE id = ?
SetStatusAll(tbl, id, status) == [i \in 1..Len(tbl) |-> [tbl[i] EXCEPT !.status = status]]
SetStatus(tbl, id, status) ==
    [i \in 1..Len(tbl) |-> IF i = id THEN [tbl[i] EXCEPT !.status = status] ELSE tbl[i]]

\* UPDATE searches SET debug_log = ? WHERE id = ?  (json.dumps of a dict of
\* strings, numbers, booleans and lists loads back as the same dict)
SetDebugLogEmpty(tbl, id, log) ==
    [i \in 1..Len(tbl) |-> IF i = id THEN [tbl[i] EXCEPT !.debug_log = << EmptyDebug >>] ELSE tbl[i]]
SetDebugLog(tbl, id, log) ==
    [i \in 1..Len(tbl) |-> IF i = id THEN [tbl[i] EXCEPT !.debug_log = << log >>] ELSE tbl[i]]

\* INSERT OR IGNORE INTO events: a row with a NULL name or date, or equal to
\* a stored row in (search_id, name, date, venue_name) with a venue, is
\* skipped (NULL venues never collide under UNIQUE)
InsertEvent(tbl, id, event) ==
    IF \/ event.name = NULL
       \/ event.date = NULL
       \/ /\ event.venue_name # NULL
          /\ \E i \in 1..Len(tbl) :
                /\ tbl[i].search_id = id
                /\ tbl[i].name = event.name
                /\ tbl[i].date = event.date
                /\ tbl[i].venue_name = event.venue_name
    THEN tbl
    ELSE Append(tbl, [search_id |-> id, name |-> event.name, date |-> event.date,
                      venue_name |-> event.venue_name, segment |-> event.segment])

\* INSERT OR REPLACE INTO weather_days: the row of (search_id, date) is
\* replaced; of the value columns the score and the recommendation are kept,
\* the others are written alike; data_type is not a column
InsertWeatherDay(tbl, id, w) ==
    LET Other(r) == ~(r.search_id = id /\ r.date = w.date)
    IN  Append(SelectSeq(tbl, Other),
               [search_id |-> id, date |-> w.date, outdoor_score |-> w.outdoor_score,
                recommendation |-> w.recommendation])

\* SELECT * FROM events / weather_days WHERE search_id = ? (ORDER BY date:
\* the rows are only read grouped by date, where table order is kept)
get_events_for_search(id) ==
    LET OfRun(r) == r.search_id = id IN SelectSeq(events, OfRun)
get_weather_for_search(id) ==
    LET OfRun(r) == r.search_id = id IN SelectSeq(weather_days, OfRun)

\* ------------------------------------------------------------------------
\* get_results_by_date
\* ------------------------------------------------------------------------
\* e.get("is_own_event") on a row read back from the events table
RowIsOwnEvent(row) ==
    IF "is_own_event" \in DOMAIN row THEN row.is_own_event ELSE FALSE

competition_level_from_three(event_count) ==
    IF event_count = 0 THEN "none"
    ELSE IF event_count < 3 THEN "low"
    ELSE IF event_count < 5 THEN "medium"
    ELSE "high"
competition_level(event_count) ==
    IF event_count = 0 THEN "none"
    ELSE IF event_count <= 2 THEN "low"
    ELSE IF event_count <= 5 THEN "medium"
    ELSE "high"

\* str < str on the characters of a date text: by code point, the shorter
\* text first when it is a prefix of the other
CharRank(c) ==
    CASE c = "-" -> 45 [] c = "0" -> 48 [] c = "1" -> 49 [] c = "2" -> 50
      [] c = "3" -> 51 [] c = "4" -> 52 [] c = "5" -> 53 [] c = "6" -> 54
      [] c = "7" -> 55 [] c = "8" -> 56 [] c = "9" -> 57 [] OTHER -> 127

RECURSIVE StrLess(_, _)
StrLess(a, b) ==
    IF Len(b) = 0 THEN FALSE
    ELSE IF Len(a) = 0 THEN TRUE
    ELSE IF SubSeq(a, 1, 1) = SubSeq(b, 1, 1)
         THEN StrLess(SubSeq(a, 2, Len(a)), SubSeq(b, 2, Len(b)))
         ELSE CharRank(SubSeq(a, 1, 1)) < CharRank(SubSeq(b, 1, 1))

\* sorted(S) for a set of texts
SortedTexts(S) ==
    CHOOSE o \in Orders(S) : \A i, j \in 1..Len(o) : i < j => StrLess(o[i], o[j])

\* e.get("segment") or "other"
SegmentOf(e) == IF e.segment = NULL \/ e.segment = "" THEN "other" ELSE e.segment

\* the loop of lines 276-279: the number of events of each segment met
segment_counts(day_events) ==
    [seg \in {SegmentOf(day_events[i]) : i \in 1..Len(day_events)} |->
        Cardinality({i \in 1..Len(day_events) : SegmentOf(day_events[i]) = seg})]

\* line 257: the keys of events_by_date (events with a date) and of
\* weather_by_date, sorted
all_dates_of_events(id) ==
    LET evs == get_events_for_search(id)
    IN  SortedTexts({evs[i].date : i \in {j \in 1..Len(evs) : evs[j].date # ""}})
all_dates(id) ==
    LET evs == get_events_for_search(id)
        ws == get_weather_for_search(id)
    IN  SortedTexts({evs[i].date : i \in {j \in 1..Len(evs) : evs[j].date # ""}}
                    \cup {ws[i].date : i \in 1..Len(ws)})

\* the result as a function from the dates of the Run's events and weather
\* days to the day's record
get_results_by_date(id) ==
    LET evs == get_events_for_search(id)
        ws == get_weather_for_search(id)
    IN  [d \in Range(all_dates(id)) |->
            LET OnDay(e) == e.date = d
                day_events == SelectSeq(evs, OnDay)
            IN  [date |-> d,
                 events |-> day_events,
                 event_count |-> Len(day_events),
                 competition_level |-> competition_level(Len(day_events)),
                 segment_counts |-> segment_counts(day_events),
                 has_weather |-> \E i \in 1..Len(ws) : ws[i].date = d,
                 has_own_event |-> \E i \in 1..Len(day_events) :
                                      RowIsOwnEvent(day_events[i])]]

\* the days of the result in the order the dict holds them
results_in_order(id) ==
    [k \in 1..Len(all_dates(id)) |-> get_results_by_date(id)[all_dates(id)[k]]]

\* ------------------------------------------------------------------------
\* _extract_domain
\* ------------------------------------------------------------------------
\* the first position from i on that holds "/", "?" or "#", or Len + 1
RECURSIVE NetlocEnd(_, _)
NetlocEnd(url, i) ==
    IF i > Len(url) \/ SubSeq(url, i, i) \in {"/", "?", "#"} THEN i
    ELSE NetlocEnd(url, i + 1)

\* the position after "//", or 0 when the text holds none
RECURSIVE NetlocStart(_, _)
NetlocStart(url, i) ==
    IF i + 1 > Len(url) THEN 0
    ELSE IF SubSeq(url, i, i + 1) = "//" THEN i + 2
    ELSE NetlocStart(url, i + 1)

\* urlparse(url).netloc without a leading "www."
extract_domain(url) ==
    LET a == NetlocStart(url, 1)
        netloc == IF a = 0 THEN "" ELSE SubSeq(url, a, NetlocEnd(url, a) - 1)
    IN  IF Len(netloc) >= 4 /\ SubSeq(netloc, 1, 4) = "www."
        THEN SubSeq(netloc, 5, Len(netloc))
        ELSE netloc

\* ------------------------------------------------------------------------
\* run_search as a state machine: one action per stage
\* ------------------------------------------------------------------------
\* progress_callback(message, fraction), when a callback was given
EmitScaled(sink, fraction) ==
    IF args.callback THEN Append(sink, fraction * 100) ELSE sink
Emit(sink, fraction) == IF args.callback THEN Append(sink, fraction) ELSE sink

\* an exception raised inside the try block: control goes to the handler
Throw(e) == exc' = e /\ pc' = "h_save"

\* the database before the call: no Run, or one finished Run of an earlier
\* call with its events and weather
PriorLog == [EmptyDebug EXCEPT !.search_results_total = 1]
PriorDatabases ==
    { [searches |-> << >>, events |-> << >>, weather_days |-> << >>] }
    \cup { [searches |-> << [city_id |-> 9, status |-> st, debug_log |-> << PriorLog >>] >>,
            events |-> << [search_id |-> 1, name |-> "Techno Night", date |-> "2025-03-01",
                           venue_name |-> "Club A", segment |-> "other"] >>,
            weather_days |-> << [search_id |-> 1, date |-> "2025-03-01", outdoor_score |-> 60,
                                 recommendation |-> "EITHER"] >>] :
           st \in {"completed", "failed"} }

OrchLocalsInit ==
    /\ pc = "idle"
    /\ args = [city_id |-> UnknownCityId,
               range |-> <<[y |-> 2025, m |-> 3, d |-> 1], [y |-> 2025, m |-> 3, d |-> 3]>>,
               segments |-> << >>, api_key |-> FALSE, callback |-> FALSE]
    /\ search_id = 0
    /\ debug = EmptyDebug
    /\ loc = EmptyLocals
    /\ exc = NoError
    /\ outcome = NoOutcome
    /\ progress = << >>
    /\ save_calls = << >>

OrchInit ==
    /\ \E db \in PriorDatabases :
          /\ searches = db.searches
          /\ events = db.events
          /\ weather_days = db.weather_days
    /\ OrchLocalsInit

OrchIdle ==
    /\ searches = << >>
    /\ events = << >>
    /\ weather_days = << >>
    /\ OrchLocalsInit

\* the call with the Run record created before the city is looked up
RunSearchCallCreateFirst ==
    /\ pc = "idle"
    /\ \E a \in RunInputs :
          /\ args' = a
          /\ IF a.city_id \in DOMAIN CITIES
             THEN pc' = "create" /\ outcome' = outcome /\ searches' = searches
             ELSE /\ pc' = "exit"
                  /\ outcome' = Raised(E_CityNotFound)
                  /\ searches' = NewSearch(searches, a)
    /\ UNCHANGED <<events, weather_days, search_id, debug, loc, exc, progress, save_calls>>

\* lines 30-32: the call; an unknown city raises before anything is written
RunSearchCall ==
    /\ pc = "idle"
    /\ \E a \in RunInputs :
          /\ args' = a
          /\ IF a.city_id \in DOMAIN CITIES
             THEN pc' = "create" /\ outcome' = outcome
             ELSE pc' = "exit" /\ outcome' = Raised(E_CityNotFound)
    /\ UNCHANGED <<db_vars, search_id, debug, loc, exc, progress, save_calls>>

\* line 35: create_search, outside the try block
CreateSearch ==
    /\ pc = "create"
    /\ \/ /\ searches' = NewSearch(searches, args)
          /\ search_id' = Len(searches')
          /\ pc' = "search"
          /\ outcome' = outcome
       \/ /\ pc' = "exit"
          /\ outcome' = Raised(E_Create)
          /\ UNCHANGED <<searches, search_id>>
    /\ UNCHANGED <<events, weather_days, args, debug, loc, exc, progress, save_calls>>

\* lines 52-69: progress 0.1, search_events, trace, progress 0.2
StepSearch ==
    /\ pc = "search"
    /\ LET city == CITIES[args.city_id]
           sink == Emit(progress, P_Search)
       IN  \/ /\ ~args.api_key
              /\ LET res == fallback_search(city.name, city.country)
                 IN  /\ loc' = [loc EXCEPT !.search_results = res]
                     /\ debug' = [debug EXCEPT !.queries = FallbackDebug(res),
                                               !.search_results_total = Len(res)]
              /\ progress' = Emit(sink, P_Direct)
              /\ pc' = "direct"
              /\ exc' = exc
           \/ /\ args.api_key
              /\ \E ord \in MonthOrders(args.range[1], args.range[2]) :
                 \E pattern \in ProviderPatterns :
                    LET bq == build_queries(city.name, city.country, args.range[1],
                                            args.range[2], args.segments, ord, ord, ord)
                        st == search_events(bq.queries, pattern, city.name)
                    IN  IF bq.raised
                        THEN /\ progress' = sink
                             /\ Throw(E_BuildQueries)
                             /\ UNCHANGED <<loc, debug>>
                        ELSE /\ loc' = [loc EXCEPT !.search_results = st.all]
                             /\ debug' = [debug EXCEPT !.queries = st.debug,
                                                       !.search_results_total = Len(st.all)]
                             /\ progress' = Emit(sink, P_Direct)
                             /\ pc' = "direct"
                             /\ exc' = exc
    /\ UNCHANGED <<db_vars, args, search_id, outcome, save_calls>>

\* lines 71-86: fetch of the direct URLs, per-URL trace, progress 0.35
StepDirect ==
    /\ pc = "direct"
    /\ LET direct_urls == get_direct_urls(CITIES[args.city_id].name)
       IN  \E ok \in ScrapeOutcomes(direct_urls, Len(direct_urls)) :
              LET direct_pages == scrape_multiple(direct_urls, Len(direct_urls), ok)
              IN  /\ loc' = [loc EXCEPT !.direct_pages = direct_pages]
                  /\ debug' = [debug EXCEPT
                        !.direct_urls_scraped = Len(direct_pages),
                        !.scrape_attempts = @ \o
                            [i \in 1..Len(direct_urls) |->
                                [url |-> direct_urls[i],
                                 success |-> \E j \in 1..Len(direct_pages) :
                                                direct_pages[j].url = direct_urls[i],
                                 source |-> "direct"]]]
    /\ progress' = Emit(progress, P_Bulk)
    /\ pc' = "bulk"
    /\ UNCHANGED <<db_vars, args, search_id, exc, outcome, save_calls>>

\* min(len(urls), 25)
Min(a, b) == IF a < b THEN a ELSE b

\* lines 88-110: bulk fetch of the search results, trace, progress 0.5
StepBulk ==
    /\ pc = "bulk"
    /\ LET urls == BulkUrls(loc.search_results, get_direct_urls(CITIES[args.city_id].name))
       IN  \E ok \in ScrapeOutcomes(urls, BulkCap) :
              LET scraped_pages == scrape_multiple(urls, BulkCap, ok)
                  shown == Take(urls, BulkCap)
              IN  /\ loc' = [loc EXCEPT !.scraped_pages = scraped_pages]
                  /\ debug' = [debug EXCEPT
                        !.scrape_attempts = @ \o
                            [i \in 1..Len(shown) |->
                                [url |-> shown[i],
                                 success |-> \E j \in 1..Len(scraped_pages) :
                                                scraped_pages[j].url = shown[i],
                                 source |-> "search"]],
                        !.scrape_success = Len(scraped_pages),
                        !.scrape_fail = Min(Len(urls), BulkCap) - Len(scraped_pages)]
    /\ progress' = Emit(progress, P_Extract)
    /\ pc' = "extract"
    /\ UNCHANGED <<db_vars, args, search_id, exc, outcome, save_calls>>

\* lines 112-156: pages for the extractor, parse_events_batch, trace,
\* progress 0.8.  The extractor raises when the model's JSON holds an object
\* whose name is not a string (event_parser.py, _deduplicate).
StepExtract ==
    /\ pc = "extract"
    /\ LET all_pages == AllPages(loc)
       IN  \/ \E evs \in ExtractOutcomes(all_pages, args.range[1]) :
                 /\ loc' = [loc EXCEPT !.events = evs, !.i = 1]
                 /\ debug' = [debug EXCEPT !.ai_input_pages = Len(all_pages),
                                           !.events_extracted = Len(evs)]
                 /\ progress' = Emit(progress, P_Weather)
                 /\ pc' = "store_events"
                 /\ exc' = exc
           \/ /\ all_pages # << >>
              /\ loc' = loc
              /\ debug' = [debug EXCEPT !.ai_input_pages = Len(all_pages)]
              /\ progress' = progress
              /\ Throw(E_Extract)
    /\ UNCHANGED <<db_vars, args, search_id, outcome, save_calls>>

\* lines 159-160: one insert_event of the loop
StoreEvent ==
    /\ pc = "store_events"
    /\ loc.i <= Len(loc.events)
    /\ \/ /\ events' = InsertEvent(events, search_id, loc.events[loc.i])
          /\ loc' = [loc EXCEPT !.i = @ + 1]
          /\ UNCHANGED <<pc, exc>>
       \/ /\ Throw(E_InsertEvent)
          /\ UNCHANGED <<events, loc>>
    /\ UNCHANGED <<searches, weather_days, args, search_id, debug, outcome, progress, save_calls>>

\* lines 163-170: get_weather_for_range, which absorbs a failing forecast
StepWeather ==
    /\ pc = "store_events"
    /\ loc.i > Len(loc.events)
    /\ \E w \in WeatherOutcomes(args.range[1], args.range[2]) :
          loc' = [loc EXCEPT !.weather_data = w, !.i = 1]
    /\ pc' = "store_weather"
    /\ UNCHANGED <<db_vars, args, search_id, debug, exc, outcome, progress, save_calls>>

\* lines 172-173: one insert_weather_day of the loop
StoreWeatherDay ==
    /\ pc = "store_weather"
    /\ loc.i <= Len(loc.weather_data)
    /\ \/ /\ weather_days' = InsertWeatherDay(weather_days, search_id, loc.weather_data[loc.i])
          /\ loc' = [loc EXCEPT !.i = @ + 1]
          /\ UNCHANGED <<pc, exc>>
       \/ /\ Throw(E_InsertWeather)
          /\ UNCHANGED <<weather_days, loc>>
    /\ UNCHANGED <<searches, events, args, search_id, debug, outcome, progress, save_calls>>

\* lines 175-179: progress 1.0, then save_debug_log
SaveTrace ==
    /\ pc = "store_weather"
    /\ loc.i > Len(loc.weather_data)
    /\ progress' = Emit(progress, P_Done)
    /\ \/ /\ searches' = SetDebugLog(searches, search_id, debug)
          /\ save_calls' = Append(save_calls, [ok |-> TRUE, log |-> debug])
          /\ pc' = "complete"
          /\ exc' = exc
       \/ /\ save_calls' = Append(save_calls, [ok |-> FALSE, log |-> debug])
          /\ Throw(E_SaveLog)
          /\ UNCHANGED searches
    /\ UNCHANGED <<events, weather_days, args, search_id, debug, loc, outcome>>

\* lines 181 and 193: update_search_status(search_id, "completed"), return
MarkCompleted ==
    /\ pc = "complete"
    /\ \/ /\ searches' = SetStatus(searches, search_id, "completed")
          /\ outcome' = Returned(search_id)
          /\ pc' = "exit"
          /\ exc' = exc
       \/ /\ Throw(E_MarkCompleted)
          /\ UNCHANGED <<searches, outcome>>
    /\ UNCHANGED <<events, weather_days, args, search_id, debug, loc, progress, save_calls>>

\* lines 183-189: the handler adds the error to the trace and saves it; a
\* failure of this save is swallowed
HandlerSave ==
    /\ pc = "h_save"
    /\ debug' = [debug EXCEPT !.error = exc]
    /\ \/ /\ searches' = SetDebugLog(searches, search_id, debug')
          /\ save_calls' = Append(save_calls, [ok |-> TRUE, log |-> debug'])
       \/ /\ save_calls' = Append(save_calls, [ok |-> FALSE, log |-> debug'])
          /\ UNCHANGED searches
    /\ pc' = "h_status"
    /\ UNCHANGED <<events, weather_days, args, search_id, loc, exc, outcome, progress>>

\* lines 190-191: update_search_status(search_id, "failed"), then raise e;
\* when the update raises, its exception leaves run_search instead
HandlerMarkFailed ==
    /\ pc = "h_status"
    /\ \/ /\ searches' = SetStatus(searches, search_id, "failed")
          /\ outcome' = Raised(exc)
       \/ /\ outcome' = Raised(E_MarkFailed)
          /\ UNCHANGED searches
    /\ pc' = "exit"
    /\ UNCHANGED <<events, weather_days, args, search_id, debug, loc, exc, progress, save_calls>>

\* ------------------------------------------------------------------------
\* scrapers/event_parser.py: strings and JSON values
\* ------------------------------------------------------------------------
\* A string edited by the parser (a name, a venue, a description, a keyword)
\* is the sequence of its characters.
LowerChar(c) ==
    CASE c = "A" -> "a" [] c = "B" -> "b" [] c = "C" -> "c" [] c = "E" -> "e"
      [] c = "F" -> "f" [] c = "M" -> "m" [] c = "R" -> "r" [] c = "W" -> "w"
      [] OTHER -> c

\* str.lower()
Lower(s) == [i \in 1..Len(s) |-> LowerChar(s[i])]

\* str.strip()
RECURSIVE LStrip(_)
LStrip(s) == IF s # << >> /\ Head(s) = " " THEN LStrip(Tail(s)) ELSE s
RECURSIVE RStrip(_)
RStrip(s) == IF s # << >> /\ s[Len(s)] = " " THEN RStrip(SubSeq(s, 1, Len(s) - 1)) ELSE s
Strip(s) == RStrip(LStrip(s))

\* kw in s
Contains(kw, s) ==
    \E i \in 0..(Len(s) - Len(kw)) : SubSeq(s, i + 1, i + Len(kw)) = kw

\* A value of an event field as json.loads gives it: a string, None, a
\* number other than 0, or a non-empty list. A date string is only compared
\* whole, so it is held as a one-element sequence.
Str(s) == [t |-> "str", s |-> s]
None == [t |-> "none", s |-> << >>]
Num == [t |-> "num", s |-> <<"7">>]
List == [t |-> "list", s |-> <<"[]">>]

\* truth value of a field value
Truthy(v) == v.t \in {"num", "list"} \/ (v.t = "str" /\ v.s # << >>)

\* (v or "")
OrEmpty(v) == IF Truthy(v) THEN v ELSE Str(<< >>)

\* exceptions the parser lets out
AttributeError == "AttributeError: object has no attribute 'lower'"
TypeError == "TypeError: unhashable type"

\* ------------------------------------------------------------------------
\* _deduplicate
\* ------------------------------------------------------------------------
\* the key of an event, for an event whose key can be built
DedupKeyNameOnly(event) ==
    << Strip(Lower(OrEmpty(event.name).s)), None, << >> >>
DedupKey(event) ==
    << Strip(Lower(OrEmpty(event.name).s)),
       event.date,
       Strip(Lower(OrEmpty(event.venue_name).s)) >>

\* what building the key and testing "key not in seen" raises: .lower() on
\* a value that is not a string, hashing a tuple that holds a list
KeyError(event) ==
    IF OrEmpty(event.name).t # "str" \/ OrEmpty(event.venue_name).t # "str"
    THEN AttributeError
    ELSE IF event.date.t = "list" THEN TypeError
    ELSE NoError

\* the loop "for event in events" on [raised, seen, unique]
RECURSIVE DeduplicateFrom(_, _)
DeduplicateFrom(evs, acc) ==
    IF evs = << >> THEN acc
    ELSE LET event == Head(evs)
         IN  IF KeyError(event) # NoError
             THEN [acc EXCEPT !.raised = KeyError(event)]
             ELSE IF DedupKey(event) \notin acc.seen
                  THEN DeduplicateFrom(Tail(evs),
                                       [raised |-> NoError,
                                        seen |-> acc.seen \cup {DedupKey(event)},
                                        unique |-> Append(acc.unique, event)])
                  ELSE DeduplicateFrom(Tail(evs), acc)

deduplicate(evs) ==
    DeduplicateFrom(evs, [raised |-> NoError, seen |-> {}, unique |-> << >>])

\* ------------------------------------------------------------------------
\* _get_own_brand_keywords and flag_own_events
\* ------------------------------------------------------------------------
\* OWN_BRAND_KEYWORDS is held as the list of its comma-separated parts:
\* the parts are lower-cased, stripped, and the empty ones dropped
get_own_brand_keywords(raw) ==
    LET parts == [i \in 1..Len(raw) |-> Strip(Lower(raw[i]))]
        NonEmpty(k) == k # << >>
    IN  SelectSeq(parts, NonEmpty)

\* combined = f"{name} {desc} {venue}"
CombinedNameOnly(event) == Lower(OrEmpty(event.name).s)
Combined(event) ==
    Lower(OrEmpty(event.name).s) \o <<" ">>
    \o Lower(OrEmpty(event.description).s) \o <<" ">>
    \o Lower(OrEmpty(event.venue_name).s)

\* .lower() is called on name, description and venue in turn
FlagError(event) ==
    IF \/ OrEmpty(event.name).t # "str"
       \/ OrEmpty(event.description).t # "str"
       \/ OrEmpty(event.venue_name).t # "str"
    THEN AttributeError
    ELSE NoError

BoolStr(b) == IF b THEN "True" ELSE "False"

\* [raised, events]; without keywords the list is returned as it came
flag_own_events(evs, keywords) ==
    IF keywords = << >> THEN [raised |-> NoError, events |-> evs]
    ELSE IF \E i \in 1..Len(evs) : FlagError(evs[i]) # NoError
    THEN [raised |-> AttributeError, events |-> << >>]
    ELSE [raised |-> NoError,
          events |-> [i \in 1..Len(evs) |->
                        [evs[i] EXCEPT !.is_own_event =
                            BoolStr(\E k \in 1..Len(keywords) :
                                        Contains(keywords[k], Combined(evs[i])))]]]

\* ------------------------------------------------------------------------
\* parse_events_from_text and parse_events_batch
\* ------------------------------------------------------------------------
\* bound: pages handed to parse_events_batch
MaxPages == 2

RegexCap == 20

Event(name, date, venue, desc) ==
    [name |-> name, date |-> date, venue_name |-> venue, description |-> desc,
     is_own_event |-> "absent", source_url |-> ""]

\* strings of the model
s_ACME_Bar == <<"A", "C", "M", "E", " ", "B", "a", "r">>
s_acme_bar == <<" ", "a", "c", "m", "e", " ", "b", "a", "r", " ">>
s_Rave == <<"R", "a", "v", "e">>
s_Club == <<"C", "l", "u", "b">>
s_club == <<"c", "l", "u", "b", " ">>
s_Found_on_Web == <<"F", "o", "u", "n", "d", " ", "o", "n", " ", "W", "e", "b">>
Day1 == Str(<<"2025-03-01">>)
Day2 == Str(<<"2025-03-02">>)

\* _regex_fallback: one draft per line of the text that has a date nearby
\* (page.lines holds those lines, all shorter than 100 characters), dated
\* date_from, at most 20
regex_fallback(page, date_from) ==
    LET lines == Take(page.lines, RegexCap)
    IN  [i \in 1..Len(lines) |->
            [name |-> Str(lines[i]), date |-> date_from, venue_name |-> None,
             description |-> Str(s_Found_on_Web), is_own_event |-> "absent",
             source_url |-> page.url]]

\* the objects a model answer can hold
A_Acme == Event(Str(s_ACME_Bar), Day1, Str(s_Club), Str(s_Rave))
A_AcmeAgain == Event(Str(s_acme_bar), Day1, Str(s_club), None)
A_NoName == Event(None, Day1, None, None)
A_BlankName == Event(Str(<< >>), Day1, Str(<<" ">>), Str(s_ACME_Bar))
A_AtAcme == Event(Str(s_Rave), Day2, Str(s_ACME_Bar), None)
A_NumberName == Event(Num, Day1, None, None)
A_ListDate == Event(Str(s_Rave), List, None, None)
A_NumberDesc == Event(Str(s_Rave), Day2, None, Num)

\* What the model call gives for a page: the call fails (or the content is
\* None), the content is not JSON, or it is JSON: null, a number or a
\* non-empty string or object ("json_other"), an empty string or object
\* ("json_empty"), an array with an element that is not an object
\* ("json_array_other"), or an array of objects.
AIAnswers ==
    {[kind |-> k, elems |-> << >>] :
        k \in {"call_failed", "not_json", "json_other", "json_empty", "json_array_other"}}
    \cup {[kind |-> "json_array", elems |-> a] :
            a \in { << >>, <<A_Acme>>, <<A_Acme, A_AcmeAgain>>, <<A_AcmeAgain, A_Acme>>,
                    <<A_NoName, A_BlankName>>, <<A_Acme, A_AtAcme>>, <<A_NumberName>>,
                    <<A_Acme, A_ListDate>>, <<A_NumberDesc>> }}

\* parse_events_from_text for one page
parse_events_from_text(page, api_key, date_from) ==
    IF ~api_key THEN regex_fallback(page, date_from)
    ELSE IF page.ai.kind = "json_array"
    THEN [i \in 1..Len(page.ai.elems) |->
             [page.ai.elems[i] EXCEPT !.source_url = page.url]]
    ELSE IF page.ai.kind = "json_empty" THEN << >>
    ELSE regex_fallback(page, date_from)

\* parse_events_batch: [raised, all_events, deduped, events]
parse_events_batch(pages, api_key, raw_keywords, date_from) ==
    LET all_events ==
            Flatten([i \in 1..Len(pages) |->
                        parse_events_from_text(pages[i], api_key, date_from)])
        d == deduplicate(all_events)
        f == flag_own_events(d.unique, get_own_brand_keywords(raw_keywords))
    IN  IF d.raised # NoError
        THEN [raised |-> d.raised, all_events |-> all_events, deduped |-> << >>,
              events |-> << >>]
        ELSE [raised |-> f.raised, all_events |-> all_events, deduped |-> d.unique,
              events |-> f.events]

\* --- one call of parse_events_batch, with inputs drawn from bounded sets
PageUrl == "https://ra.co/events/1"

EPPages(api_key) ==
    {[url |-> PageUrl, lines |-> l, ai |-> a] :
        l \in {<< >>, <<s_ACME_Bar, s_Rave>>},
        a \in (IF api_key THEN AIAnswers ELSE {[kind |-> "call_failed", elems |-> << >>]})}

\* OWN_BRAND_KEYWORDS: unset, " ACME", ",web"
RawKeywords ==
    { << >>,
      << <<" ", "A", "C", "M", "E">> >>,
      << << >>, <<"w", "e", "b">> >> }

EPInputs ==
    UNION {[api_key : {k}, raw_keywords : RawKeywords, date_from : {Day1},
            pages : UNION {[1..n -> EPPages(k)] : n \in 0..MaxPages}] :
           k \in BOOLEAN}

EPIdleIn ==
    [api_key |-> FALSE, raw_keywords |-> << >>, date_from |-> Day1, pages |-> << >>]

EPNotCalled ==
    [done |-> FALSE, raised |-> NoError, all_events |-> << >>, deduped |-> << >>,
     events |-> << >>]

EPInit == ep_in \in EPInputs /\ ep_out = EPNotCalled

EPIdle == ep_in = EPIdleIn /\ ep_out = EPNotCalled

ParseEventsBatchCall ==
    /\ ~ep_out.done
    /\ LET r == parse_events_batch(ep_in.pages, ep_in.api_key, ep_in.raw_keywords,
                                   ep_in.date_from)
       IN  ep_out' = [done |-> TRUE, raised |-> r.raised, all_events |-> r.all_events,
                      deduped |-> r.deduped, events |-> r.events]
    /\ UNCHANGED ep_in

\* --- one call of get_weather_for_range, with inputs drawn from bounded sets
Today == [y |-> 2025, m |-> 3, d |-> 1]

\* first days of a range: before today, today, around the forecast horizon
WXStartDates ==
    {[y |-> 2025, m |-> 2, d |-> 28], Today, [y |-> 2025, m |-> 3, d |-> 14],
     [y |-> 2025, m |-> 3, d |-> 15], [y |-> 2025, m |-> 3, d |-> 16]}

\* values the forecast gives for a day: mild, cool with showers, hot with
\* rain and wind, frost
DayValues ==
    {[temp_max |-> 24, temp_min |-> 18, precip_prob |-> 10, wind |-> 10],
     [temp_max |-> 16, temp_min |-> 12, precip_prob |-> 40, wind |-> 10],
     [temp_max |-> 38, temp_min |-> 30, precip_prob |-> 80, wind |-> 50],
     [temp_max |-> 0, temp_min |-> -6, precip_prob |-> 40, wind |-> 30]}

\* the sub-sequences of a sequence of days
RECURSIVE SubSeqs(_)
SubSeqs(s) ==
    IF s = << >> THEN { << >> }
    ELSE LET rest == SubSeqs(Tail(s))
         IN  rest \cup {<<Head(s)>> \o r : r \in rest}

\* What the forecast API answers to the request for the days near: the call
\* fails (network error, HTTP error status, body that is not JSON or lacks
\* a daily series), or it gives a daily series for some of the requested
\* days, all those of the range or fewer, down to none.
ForecastResponses(near) ==
    {[ok |-> FALSE, daily |-> << >>]}
    \cup {[ok |-> TRUE,
           daily |-> [i \in 1..Len(days) |->
                        [date |-> days[i], temp_max |-> v.temp_max, temp_min |-> v.temp_min,
                         precip_prob |-> v.precip_prob, wind |-> v.wind]]] :
            days \in SubSeqs(near), v \in DayValues}

\* what the archive API would answer for a day beyond the horizon; the
\* module defines _fetch_historical_averages and calls it from nowhere
ArchiveAnswers == {"fails", "no_match", "match"}

WXInputs ==
    UNION {[southern : BOOLEAN, today : {Today}, date_from : {f},
            date_to : {AddDays(f, n)},
            forecast : ForecastResponses(forecast_dates(Today, f, AddDays(f, n))),
            archive : ArchiveAnswers] :
           f \in WXStartDates, n \in 0..MaxDays}

WXIdleIn ==
    [southern |-> FALSE, today |-> Today, date_from |-> Today, date_to |-> Today,
     forecast |-> [ok |-> FALSE, daily |-> << >>], archive |-> "fails"]

WXNotCalled == [done |-> FALSE, results |-> << >>]

WXInit == wx_in \in WXInputs /\ wx_out = WXNotCalled

WXIdle == wx_in = WXIdleIn /\ wx_out = WXNotCalled

GetWeatherForRangeCall ==
    /\ ~wx_out.done
    /\ wx_out' = [done |-> TRUE,
                  results |-> get_weather_for_range(wx_in.southern, wx_in.today,
                                                    wx_in.date_from, wx_in.date_to,
                                                    wx_in.forecast)]
    /\ UNCHANGED wx_in

\* --- one call of _calc_outdoor_score
Temperatures == {-6, 0, 9, 10, 14, 15, 17, 18, 24, 30, 31, 35, 36, 38}
Precipitations == {0, 10, 30, 31, 50, 51, 70, 71, 80}
Winds == {0, 10, 25, 26, 40, 41, 50}

SCInputs ==
    [temp_max : Temperatures, temp_min : Temperatures,
     precip_prob : Precipitations, wind_kmh : Winds]

SCIdleIn == [temp_max |-> 24, temp_min |-> 18, precip_prob |-> 10, wind_kmh |-> 10]

SCNotCalled == [done |-> FALSE, score |-> 0]

SCInit == sc_in \in SCInputs /\ sc_out = SCNotCalled

SCIdle == sc_in = SCIdleIn /\ sc_out = SCNotCalled

CalcOutdoorScoreCall ==
    /\ ~sc_out.done
    /\ sc_out' = [done |-> TRUE,
                  score |-> calc_outdoor_score(sc_in.temp_max, sc_in.temp_min,
                                               sc_in.precip_prob, sc_in.wind_kmh)]
    /\ UNCHANGED sc_in

\* ------------------------------------------------------------------------
\* the events and weather_days tables under any sequence of inserts
\* ------------------------------------------------------------------------
\* bound: insert calls in one behaviour
MaxCalls == 3

RunIds == {1, 2}

DBEvents ==
    [name : {"Techno Night"}, date : {"2025-03-01", "2025-03-02"},
     venue_name : {"Club A", NULL}, segment : {"other", "electronic"},
     is_own_event : {FALSE}]

DBWeather ==
    {[date |-> dt, outdoor_score |-> sc, recommendation |-> outdoor_recommendation(sc),
      data_type |-> "forecast"] :
        dt \in {"2025-03-01", "2025-03-02"}, sc \in {60, 85}}

\* an entry of the log of calls; the fields a call does not have are NULL, 0
EventCall(id, e) ==
    [op |-> "insert_event", search_id |-> id, name |-> e.name, date |-> e.date,
     venue_name |-> e.venue_name, segment |-> e.segment,
     outdoor_score |-> 0, recommendation |-> NULL]

WeatherCall(id, w) ==
    [op |-> "insert_weather_day", search_id |-> id, name |-> NULL, date |-> w.date,
     venue_name |-> NULL, segment |-> NULL,
     outdoor_score |-> w.outdoor_score, recommendation |-> w.recommendation]

DBCIdle == db_log = << >>

InsertEventCall ==
    /\ Len(db_log) < MaxCalls
    /\ \E id \in RunIds : \E e \in DBEvents :
          /\ events' = InsertEvent(events, id, e)
          /\ db_log' = Append(db_log, EventCall(id, e))
    /\ UNCHANGED weather_days

InsertWeatherDayCall ==
    /\ Len(db_log) < MaxCalls
    /\ \E id \in RunIds : \E w \in DBWeather :
          /\ weather_days' = InsertWeatherDay(weather_days, id, w)
          /\ db_log' = Append(db_log, WeatherCall(id, w))
    /\ UNCHANGED events

\* ------------------------------------------------------------------------
\* scrapers/page_scraper.py
\* ------------------------------------------------------------------------
\* A page text is held by its length: n characters of the page, followed by
\* the truncation marker or not. A scrape result is a text or None (ok
\* FALSE).
MaxTextLen == 15000
MinTextLen == 100
\* len("\n... [truncated]")
MarkerLen == 16

Text(n) == [ok |-> TRUE, n |-> n, marker |-> FALSE]
NoContent == [ok |-> FALSE, n |-> 0, marker |-> FALSE]
TextLen(t) == t.n + (IF t.marker THEN MarkerLen ELSE 0)

\* if len(text) > 15000: text = text[:15000] + "\n... [truncated]"
Truncate(t) ==
    IF TextLen(t) > MaxTextLen THEN [ok |-> TRUE, n |-> MaxTextLen, marker |-> TRUE] ELSE t

\* return text if len(text) > 100 else None
TextOrNoneAtLeast(t) == IF TextLen(t) >= MinTextLen THEN t ELSE NoContent
TextOrNone(t) == IF TextLen(t) > MinTextLen THEN t ELSE NoContent

\* what a fetch (the HTTP request and the parse, or the browser session)
\* gives: an exception, or a text of some length
FetchOutcomes ==
    {[raised |-> TRUE, n |-> 0]}
    \cup {[raised |-> FALSE, n |-> k] : k \in {0, 100, 101, 15001}}

\* scrape_page_static: any exception gives None
scrape_page_static(fetch) ==
    IF fetch.raised THEN NoContent ELSE TextOrNone(Truncate(Text(fetch.n)))

\* scrape_page_dynamic: without Playwright it is scrape_page_static
scrape_page_dynamic(has_playwright, fetch) ==
    IF ~has_playwright THEN scrape_page_static(fetch)
    ELSE IF fetch.raised THEN NoContent
    ELSE TextOrNone(Truncate(Text(fetch.n)))

js_heavy_domains ==
    << "ra.co", "residentadvisor.net", "ffrfrr.com", "fever.co",
       "fourvenues.com", "xceed.me", "dice.fm" >>

\* any(domain in url for domain in js_heavy_domains), use_playwright being
\* left at its default False
needs_js(url) ==
    \E k \in 1..Len(js_heavy_domains) : Contains(js_heavy_domains[k], url)

\* scrape_page: the result and the strategies called, in order; first and
\* second are what the first and the second fetch of the call give
scrape_page(url, has_playwright, first, second) ==
    IF needs_js(url)
    THEN LET result == scrape_page_dynamic(has_playwright, first)
         IN  IF result.ok
             THEN [result |-> result, calls |-> << "dynamic" >>]
             ELSE [result |-> scrape_page_static(second),
                   calls |-> << "dynamic", "static" >>]
    ELSE [result |-> scrape_page_static(first), calls |-> << "static" >>]

\* one iteration of "for url in urls[:max_pages]" on the list results
AppendPageAlways(results, url, content) ==
    Append(results, [url |-> url, content |-> content])
AppendPage(results, url, content) ==
    IF content.ok THEN Append(results, [url |-> url, content |-> content])
    ELSE results

\* ------------------------------------------------------------------------
\* scrape_multiple as a state machine: one action per URL attempted
\* ------------------------------------------------------------------------
\* bound: largest max_pages passed to scrape_multiple; the URL lists are up
\* to one longer
MaxUrls == 2

\* a page of a script-rendering domain, a page of another domain whose query
\* string names one, a page that names none
PSUrls ==
    { "https://ra.co/events/1",
      "https://www.eventbrite.es/d/spain--madrid/?ref=dice.fm",
      "https://www.passline.com/" }

RECURSIVE UrlLists(_)
UrlLists(n) ==
    IF n = 0 THEN { << >> }
    ELSE UrlLists(n - 1)
         \cup {Append(l, u) : l \in {m \in UrlLists(n - 1) : Len(m) = n - 1}, u \in PSUrls}

PSInputs ==
    [urls : UrlLists(MaxUrls + 1), max_pages : 0..MaxUrls, has_playwright : BOOLEAN]

PSIdleIn == [urls |-> << >>, max_pages |-> 0, has_playwright |-> FALSE]
PSNotCalled == [done |-> FALSE, i |-> 1, results |-> << >>, log |-> << >>]

PSInit == ps_in \in PSInputs /\ ps_out = PSNotCalled
PSIdle == ps_in = PSIdleIn /\ ps_out = PSNotCalled

\* lines 105-111: one scrape_page, its content kept when there is one; log
\* records what scrape_page was given, what it called and what it returned
ScrapePageStep ==
    /\ ~ps_out.done
    /\ ps_out.i <= Len(Take(ps_in.urls, ps_in.max_pages))
    /\ \E first \in FetchOutcomes, second \in FetchOutcomes :
          LET url == Take(ps_in.urls, ps_in.max_pages)[ps_out.i]
              page == scrape_page(url, ps_in.has_playwright, first, second)
          IN  ps_out' = [done |-> FALSE,
                         i |-> ps_out.i + 1,
                         results |-> AppendPage(ps_out.results, url, page.result),
                         log |-> Append(ps_out.log,
                                        [url |-> url, calls |-> page.calls,
                                         first_failed |-> ~scrape_page_dynamic(
                                                              ps_in.has_playwright, first).ok,
                                         result |-> page.result])]
    /\ UNCHANGED ps_in

\* line 112: return results
ScrapeMultipleReturn ==
    /\ ~ps_out.done
    /\ ps_out.i > Len(Take(ps_in.urls, ps_in.max_pages))
    /\ ps_out' = [ps_out EXCEPT !.done = TRUE]
    /\ UNCHANGED ps_in

\* ------------------------------------------------------------------------
\* get_results_by_date as a state machine: one call on a stored database
\* ------------------------------------------------------------------------
\* bound: most events stored for one day of a Run
MaxEvents == 6

RD_Day1 == "2024-12-31"
RD_Day2 == "2025-01-09"
RD_Day3 == "2025-01-10"

\* the segments the stored events carry, event k taking entry k modulo 3:
\* all named, one missing, one empty
SegmentPatterns ==
    { << "electronic", "techno/house", "electronic" >>,
      << "electronic", NULL, "other" >>,
      << "", "electronic", NULL >> }

\* the rows insert_event stored for n events of one day
DayRows(id, day, n, pattern) ==
    [k \in 1..n |->
        [search_id |-> id, name |-> "Event " \o ToString(k), date |-> day,
         venue_name |-> "Club A", segment |-> pattern[(k % 3) + 1]]]

WeatherRow(id, day) ==
    [search_id |-> id, date |-> day, outdoor_score |-> 60, recommendation |-> "EITHER"]

\* databases holding Run 1, with up to MaxEvents events on its second day,
\* at most one on its third and weather for any of its days, and Run 2 with
\* an event and weather of its own; the rows are in insertion order
RDDatabases ==
    { [events |-> DayRows(1, RD_Day3, n3, pattern) \o DayRows(2, RD_Day1, 1, pattern)
                  \o DayRows(1, RD_Day2, n2, pattern),
       weather_days |-> (IF 3 \in w THEN << WeatherRow(1, RD_Day3) >> ELSE << >>)
                        \o << WeatherRow(2, RD_Day2) >>
                        \o (IF 1 \in w THEN << WeatherRow(1, RD_Day1) >> ELSE << >>)
                        \o (IF 2 \in w THEN << WeatherRow(1, RD_Day2) >> ELSE << >>)] :
        n2 \in 0..MaxEvents, n3 \in 0..1, pattern \in SegmentPatterns,
        w \in SUBSET {1, 2, 3} }

RDNotCalled == [done |-> FALSE, results |-> << >>]
RDIdle == rd_in = 0 /\ rd_out = RDNotCalled

RDInit ==
    /\ RDIdle
    /\ searches = << >>
    /\ \E db \in RDDatabases :
          /\ events = db.events
          /\ weather_days = db.weather_days
    /\ OrchLocalsInit

\* lines 243-294, for the id of a Run with rows or of one without
GetResultsByDateCall ==
    /\ rd_in = 0
    /\ \E id \in 1..3 :
          /\ rd_in' = id
          /\ rd_out' = [done |-> TRUE, results |-> results_in_order(id)]

\* ------------------------------------------------------------------------
\* Specifications
\* ------------------------------------------------------------------------
\* the Pipeline Orchestrator: one call of run_search
Init == OrchInit /\ QBIdle /\ SAIdle /\ EPIdle /\ WXIdle /\ SCIdle /\ DBCIdle /\ PSIdle /\ RDIdle
Next ==
    \/ RunSearchCall /\ UNCHANGED <<qb_vars, sa_vars, ep_vars, wx_vars, sc_vars, db_log, ps_vars, rd_vars>>
    \/ CreateSearch /\ UNCHANGED <<qb_vars, sa_vars, ep_vars, wx_vars, sc_vars, db_log, ps_vars, rd_vars>>
    \/ StepSearch /\ UNCHANGED <<qb_vars, sa_vars, ep_vars, wx_vars, sc_vars, db_log, ps_vars, rd_vars>>
    \/ StepDirect /\ UNCHANGED <<qb_vars, sa_vars, ep_vars, wx_vars, sc_vars, db_log, ps_vars, rd_vars>>
    \/ StepBulk /\ UNCHANGED <<qb_vars, sa_vars, ep_vars, wx_vars, sc_vars, db_log, ps_vars, rd_vars>>
    \/ StepExtract /\ UNCHANGED <<qb_vars, sa_vars, ep_vars, wx_vars, sc_vars, db_log, ps_vars, rd_vars>>
    \/ StoreEvent /\ UNCHANGED <<qb_vars, sa_vars, ep_vars, wx_vars, sc_vars, db_log, ps_vars, rd_vars>>
    \/ StepWeather /\ UNCHANGED <<qb_vars, sa_vars, ep_vars, wx_vars, sc_vars, db_log, ps_vars, rd_vars>>
    \/ StoreWeatherDay /\ UNCHANGED <<qb_vars, sa_vars, ep_vars, wx_vars, sc_vars, db_log, ps_vars, rd_vars>>
    \/ SaveTrace /\ UNCHANGED <<qb_vars, sa_vars, ep_vars, wx_vars, sc_vars, db_log, ps_vars, rd_vars>>
    \/ MarkCompleted /\ UNCHANGED <<qb_vars, sa_vars, ep_vars, wx_vars, sc_vars, db_log, ps_vars, rd_vars>>
    \/ HandlerSave /\ UNCHANGED <<qb_vars, sa_vars, ep_vars, wx_vars, sc_vars, db_log, ps_vars, rd_vars>>
    \/ HandlerMarkFailed /\ UNCHANGED <<qb_vars, sa_vars, ep_vars, wx_vars, sc_vars, db_log, ps_vars, rd_vars>>
Spec == Init /\ [][Next]_vars

\* ------------------------------------------------------------------------
\* the Query Builder alone
InitQB == QBInit /\ SAIdle /\ OrchIdle /\ EPIdle /\ WXIdle /\ SCIdle /\ DBCIdle /\ PSIdle /\ RDIdle
NextQB == BuildQueriesCall /\ UNCHANGED <<sa_vars, or_vars, ep_vars, wx_vars, sc_vars, db_log, ps_vars, rd_vars>>
SpecQB == InitQB /\ [][NextQB]_vars

\* the Search Aggregator alone
InitSA == SAInit /\ QBIdle /\ OrchIdle /\ EPIdle /\ WXIdle /\ SCIdle /\ DBCIdle /\ PSIdle /\ RDIdle
NextSA ==
    \/ SAFallback /\ UNCHANGED <<qb_vars, or_vars, ep_vars, wx_vars, sc_vars, db_log, ps_vars, rd_vars>>
    \/ SABegin /\ UNCHANGED <<qb_vars, or_vars, ep_vars, wx_vars, sc_vars, db_log, ps_vars, rd_vars>>
    \/ SAQuery /\ UNCHANGED <<qb_vars, or_vars, ep_vars, wx_vars, sc_vars, db_log, ps_vars, rd_vars>>
    \/ SAReturn /\ UNCHANGED <<qb_vars, or_vars, ep_vars, wx_vars, sc_vars, db_log, ps_vars, rd_vars>>
SpecSA == InitSA /\ [][NextSA]_vars

\* the Event Extractor alone
InitEP == EPInit /\ QBIdle /\ SAIdle /\ OrchIdle /\ WXIdle /\ SCIdle /\ DBCIdle /\ PSIdle /\ RDIdle
NextEP == ParseEventsBatchCall /\ UNCHANGED <<qb_vars, sa_vars, or_vars, wx_vars, sc_vars, db_log, ps_vars, rd_vars>>
SpecEP == InitEP /\ [][NextEP]_vars

\* the Weather Enricher alone
InitWX == WXInit /\ QBIdle /\ SAIdle /\ OrchIdle /\ EPIdle /\ SCIdle /\ DBCIdle /\ PSIdle /\ RDIdle
NextWX == GetWeatherForRangeCall /\ UNCHANGED <<qb_vars, sa_vars, or_vars, ep_vars, sc_vars, db_log, ps_vars, rd_vars>>
SpecWX == InitWX /\ [][NextWX]_vars

\* the outdoor score alone
InitSC == SCInit /\ QBIdle /\ SAIdle /\ OrchIdle /\ EPIdle /\ WXIdle /\ DBCIdle /\ PSIdle /\ RDIdle
NextSC == CalcOutdoorScoreCall /\ UNCHANGED <<qb_vars, sa_vars, or_vars, ep_vars, wx_vars, db_log, ps_vars, rd_vars>>
SpecSC == InitSC /\ [][NextSC]_vars

\* the events and weather_days tables under insert calls
InitDB == OrchIdle /\ DBCIdle /\ QBIdle /\ SAIdle /\ EPIdle /\ WXIdle /\ SCIdle /\ PSIdle /\ RDIdle
NextDB ==
    \/ InsertEventCall /\ UNCHANGED <<qb_vars, sa_vars, run_vars, ep_vars, wx_vars, sc_vars, ps_vars, rd_vars>>
    \/ InsertWeatherDayCall /\ UNCHANGED <<qb_vars, sa_vars, run_vars, ep_vars, wx_vars, sc_vars, ps_vars, rd_vars>>
SpecDB == InitDB /\ [][NextDB]_vars

\* the Page Fetcher alone
InitPS == PSInit /\ QBIdle /\ SAIdle /\ OrchIdle /\ EPIdle /\ WXIdle /\ SCIdle /\ DBCIdle /\ RDIdle
NextPS ==
    \/ ScrapePageStep /\ UNCHANGED <<qb_vars, sa_vars, or_vars, ep_vars, wx_vars, sc_vars, rd_vars, db_log>>
    \/ ScrapeMultipleReturn /\ UNCHANGED <<qb_vars, sa_vars, or_vars, ep_vars, wx_vars, sc_vars, rd_vars, db_log>>
SpecPS == InitPS /\ [][NextPS]_vars

\* the Results Aggregator alone
InitRD == RDInit /\ QBIdle /\ SAIdle /\ EPIdle /\ WXIdle /\ SCIdle /\ DBCIdle /\ PSIdle
NextRD == GetResultsByDateCall /\ UNCHANGED <<qb_vars, sa_vars, or_vars, ep_vars, wx_vars, sc_vars, ps_vars, db_log>>
SpecRD == InitRD /\ [][NextRD]_vars


\* ------------------------------------------------------------------------
\* Properties of the Pipeline Orchestrator
\* ------------------------------------------------------------------------
TerminalStatus == {"completed", "failed"}

\* the call created a Run and has left run_search
RunEnded == pc = "exit" /\ search_id # 0

\* the exceptions of the steps search .. weather persistence
StepErrors == {E_BuildQueries, E_Extract, E_InsertEvent, E_InsertWeather}

\* the exceptions of persistence calls
DbErrors == {E_Create, E_InsertEvent, E_InsertWeather, E_SaveLog, E_MarkCompleted, E_MarkFailed}

\* no persistence call of the run failed
NoDbFailure ==
    /\ exc \notin DbErrors
    /\ outcome.exc \notin DbErrors
    /\ \A k \in 1..Len(save_calls) : save_calls[k].ok

\* the trace without its error key
Accumulated(log) == [log EXCEPT !.error = NoError]

\* the save_debug_log calls that succeeded
IsOk(c) == c.ok
OkSaves == SelectSeq(save_calls, IsOk)

\* C1 as claimed: a Run created by run_search is first observable as
\* pending, its status then moves only pending -> running -> completed or
\* failed, and a completed or failed status is never changed again.
C1_PendingRunningTerminal ==
    [][ /\ \A i \in 1..Len(searches') :
              i > Len(searches) => searches'[i].status = "pending"
        /\ \A i \in 1..Len(searches) :
              \/ searches'[i].status = searches[i].status
              \/ searches[i].status = "pending" /\ searches'[i].status = "running"
              \/ searches[i].status = "running" /\ searches'[i].status \in TerminalStatus
      ]_vars

\* C1 as amended: a Run created by run_search is first observable as running
\* (it is never pending), its status then moves only running -> completed or
\* failed, and a completed or failed status is never changed again by any
\* later step, of this Run or of another.
C1_RunningThenTerminal ==
    [][ /\ Len(searches') >= Len(searches)
        /\ \A i \in 1..Len(searches') :
              i > Len(searches) => searches'[i].status = "running"
        /\ \A i \in 1..Len(searches) :
              \/ searches'[i].status = searches[i].status
              \/ searches[i].status = "running" /\ searches'[i].status \in TerminalStatus
      ]_vars

\* a failed Run next to the completed Run of an earlier call
C1_Witness ==
    /\ RunEnded
    /\ Len(searches) = 2
    /\ searches[1].status = "completed"
    /\ searches[2].status = "failed"

\* C2: when a step after the creation of the Run raises, the handler is all
\* that still runs (no later stage writes events, weather or progress), the
\* trace built so far plus the error message is saved, the Run is failed and
\* the same exception reaches the caller.
C2_AbortSavesTraceAndFails ==
    [][ /\ pc \in {"h_save", "h_status"} =>
              /\ pc' \in {"h_status", "exit"}
              /\ UNCHANGED <<events, weather_days, progress, loc>>
        /\ (pc' = "exit" /\ exc' \in StepErrors) =>
              /\ searches'[search_id'].debug_log = << [debug' EXCEPT !.error = exc'] >>
              /\ searches'[search_id'].status = "failed"
              /\ outcome' = Raised(exc')
      ]_vars

\* C3: a Run whose persistence calls all succeed ends completed, whatever
\* the date range and whatever the search, fetch, AI and weather calls do.
C3_CompletedUnlessPersistenceFails ==
    (RunEnded /\ NoDbFailure) =>
        /\ searches[search_id].status = "completed"
        /\ outcome = Returned(search_id)

\* C4: the exception that leaves run_search on the failure path is the one
\* that caused the abort, and the Run is failed, whatever persistence call
\* fails during failure handling.
C4_OriginalErrorNeverMasked ==
    (pc = "exit" /\ exc # NoError) =>
        /\ outcome = Raised(exc)
        /\ searches[search_id].status = "failed"

\* C5 as claimed: a run that created a Run persists the trace exactly once,
\* at its end, on the success and on the failure path, and on failure the
\* persisted trace holds everything accumulated before the failing step.
C5_TracePersistedExactlyOnce ==
    /\ (pc \notin {"complete", "h_save", "h_status", "exit"}) => save_calls = << >>
    /\ RunEnded =>
          /\ Len(OkSaves) = 1
          /\ searches[search_id].debug_log = << debug >>

\* C5 as amended: a run that created a Run calls save_debug_log only at its
\* end, once or twice, on the success and on the failure path alike; when no
\* persistence call fails the trace is persisted exactly once; and whatever
\* is persisted is the last saved trace, which holds everything accumulated
\* before the failing step (with the error message when the handler saved it).
C5_TraceSavedAtEnd ==
    /\ (pc \notin {"complete", "h_save", "h_status", "exit"}) => save_calls = << >>
    /\ RunEnded =>
          /\ Len(save_calls) \in {1, 2}
          /\ NoDbFailure => Len(OkSaves) = 1
          /\ searches[search_id].debug_log =
                (IF OkSaves = << >> THEN << >> ELSE << OkSaves[Len(OkSaves)].log >>)
          /\ \A k \in 1..Len(save_calls) :
                /\ Accumulated(save_calls[k].log) = Accumulated(debug)
                /\ save_calls[k].log.search_results_total = Len(loc.search_results)
                /\ save_calls[k].log.direct_urls_scraped = Len(loc.direct_pages)
                /\ save_calls[k].log.scrape_success = Len(loc.scraped_pages)
                /\ save_calls[k].log.events_extracted = Len(loc.events)
          /\ (exc # NoError /\ save_calls[Len(save_calls)].ok) =>
                searches[search_id].debug_log = << debug >> /\ debug.error = exc

\* a run aborted by a failing insert_event whose partial trace, with fetched
\* pages and extracted events, is in the database
C5_Witness ==
    /\ RunEnded
    /\ exc = E_InsertEvent
    /\ searches[search_id].status = "failed"
    /\ Len(save_calls) = 1
    /\ searches[search_id].debug_log = << debug >>
    /\ debug.error = E_InsertEvent
    /\ debug.events_extracted = 2
    /\ debug.scrape_success > 0

\* C6: a call with a city id of no row raises the not-found error and
\* changes nothing: no Run, event or weather row is written, nothing is
\* searched, fetched or reported to the progress sink.
C6_UnknownCityFailsFast ==
    [][ (pc = "idle" /\ args'.city_id \notin DOMAIN CITIES) =>
            /\ pc' = "exit"
            /\ outcome' = Raised(E_CityNotFound)
            /\ UNCHANGED <<db_vars, search_id, debug, loc, progress, save_calls>>
      ]_vars

\* the call for an unknown city has raised, the Run of an earlier call is
\* the only row
C6_Witness ==
    /\ pc = "exit"
    /\ args.city_id = UnknownCityId
    /\ outcome = Raised(E_CityNotFound)
    /\ Len(searches) = 1
    /\ progress = << >>

\* ------------------------------------------------------------------------
\* Properties of the Query Builder
\* ------------------------------------------------------------------------
\* the calendar months touched by [date_from, date_to]
TouchedMonths(date_from, date_to) ==
    {my \in (1..12) \X {date_from.y, date_to.y} :
        /\ date_from.y * 12 + date_from.m <= my[2] * 12 + my[1]
        /\ my[2] * 12 + my[1] <= date_to.y * 12 + date_to.m}

\* the non-platform query texts that name the month my, in any locale
TextsNaming(city, segments, my) ==
    {q.query : q \in Range(EnglishBlock(city, MonthStr(month_names, my), segments))
                  \cup Range(SpanishBlock(city, MonthStr(month_names_es, my), segments))
                  \cup Range(PortugueseBlock(city, MonthStr(month_names_pt, my)))}

QBReturned == qb_out.done /\ ~qb_out.raised

\* C7: every calendar month touched by [date_from, date_to], a partially
\* touched last month included, is named by at least one non-platform query
\* of the returned list.
C7_EveryMonthQueried ==
    QBReturned =>
        \A my \in TouchedMonths(qb_in.date_from, qb_in.date_to) :
            \E i \in 1..Len(qb_out.queries) :
                /\ NotPlatform(qb_out.queries[i])
                /\ qb_out.queries[i].query \in TextsNaming(qb_in.city, qb_in.segments, my)

\* C8: the returned list has at most 21 entries, at most 12 of them
\* non-platform and at most 9 platform, and no two entries share a query text.
C8_CappedAndDistinct ==
    QBReturned =>
        /\ Len(qb_out.queries) <= 21
        /\ Len(SelectSeq(qb_out.queries, NotPlatform)) <= 12
        /\ Len(SelectSeq(qb_out.queries, IsPlatform)) <= 9
        /\ \A i, j \in 1..Len(qb_out.queries) :
              qb_out.queries[i].query = qb_out.queries[j].query => i = j

\* a call with a repeated segment over two months for a Spanish-speaking
\* country: 24 non-platform queries are constructed, the cap cuts them to 12
\* and the deduplication to 10, next to the 9 platform queries of AR
C8_Witness ==
    /\ QBReturned
    /\ qb_in.country = "AR"
    /\ Len(qb_in.segments) = 2
    /\ qb_in.segments[1] = qb_in.segments[2]
    /\ Cardinality(TouchedMonths(qb_in.date_from, qb_in.date_to)) = 2
    /\ Len(SelectSeq(qb_out.queries, NotPlatform)) = 10
    /\ Len(SelectSeq(qb_out.queries, IsPlatform)) = 9

\* general < segment < localized < platform
IntentRank(type) ==
    CASE type = "general" -> 1
      [] type = "segment" -> 2
      [] type \in {"general_es", "segment_es", "general_pt"} -> 3
      [] type = "platform" -> 4

\* C9: in the returned list every general query precedes every segment
\* query, which precede every localized query, which precede every platform
\* query; and the same arguments always give the same list.
C9_IntentOrderDeterministic ==
    QBReturned =>
        /\ \A i, j \in 1..Len(qb_out.queries) :
              i < j => IntentRank(qb_out.queries[i].type) <= IntentRank(qb_out.queries[j].type)
        /\ \A o1, o2, o3 \in MonthOrders(qb_in.date_from, qb_in.date_to) :
              build_queries(qb_in.city, qb_in.country, qb_in.date_from, qb_in.date_to,
                            qb_in.segments, o1, o2, o3).queries = qb_out.queries

\* ------------------------------------------------------------------------
\* Properties of the Search Aggregator
\* ------------------------------------------------------------------------
\* the items of rs whose link occurs at no earlier position, in order
FirstIdx(rs) == {i \in 1..Len(rs) : \A j \in 1..(i - 1) : rs[j].link # rs[i].link}

KeepFirst(rs) ==
    LET I == FirstIdx(rs)
    IN  [k \in 1..Cardinality(I) |->
            rs[CHOOSE i \in I : Cardinality({j \in I : j < i}) = k - 1]]

NewUniqueCounts == [i \in 1..Len(query_debug) |-> query_debug[i].new_unique]

\* C10: the merged list holds each distinct URL of the per-query responses
\* exactly once, the item kept being its first occurrence in issued-query
\* order, and the new_unique counts of the trace sum to the merged length.
C10_MergedOncePerUrl ==
    (sa_pc = "done" /\ sa_in.api_key) =>
        LET rs == Flatten(sa_resp)
        IN  /\ all_results = KeepFirst(rs)
            /\ \A u \in {rs[i].link : i \in 1..Len(rs)} :
                  Cardinality({i \in 1..Len(all_results) : all_results[i].link = u}) = 1
            /\ SumSeq(NewUniqueCounts) = Len(all_results)

\* two queries answered with a common URL, both responses holding a second URL
C10_Witness ==
    /\ sa_pc = "done"
    /\ sa_in.api_key
    /\ Len(sa_resp) >= 2
    /\ \E i \in 1..Len(sa_resp[1]) : \E j \in 1..Len(sa_resp[2]) :
          sa_resp[1][i].link = sa_resp[2][j].link
    /\ Len(all_results) >= 2
    /\ Len(all_results) < Len(Flatten(sa_resp))

\* the call has left search_events, by return or by an exception
SAEnded == sa_pc \in {"done", "raised"}

\* C11: on the credentialed path a query whose provider call failed, or whose
\* response is malformed, gets a trace entry with result_count 0, the later
\* queries are still issued, and the call returns a trace with exactly one
\* entry per built query, in issued order.
C11_FailedQueryTolerated ==
    sa_in.api_key =>
        /\ \A i \in sa_failed :
              /\ i <= Len(query_debug)
              /\ query_debug[i].query = sa_in.queries[i].query
              /\ query_debug[i].result_count = 0
        /\ SAEnded =>
              /\ sa_pc = "done"
              /\ Len(sa_resp) = Len(sa_in.queries)
              /\ Len(query_debug) = Len(sa_in.queries)
              /\ \A i \in 1..Len(query_debug) :
                    query_debug[i].query = sa_in.queries[i].query

\* ------------------------------------------------------------------------
\* Properties of the Event Extractor
\* ------------------------------------------------------------------------
\* the text of a field, a missing one read as empty
FieldText(v) == IF v.t = "str" THEN v.s ELSE << >>

\* the identity of a draft: name lower-cased and trimmed, date, venue
\* lower-cased and trimmed
DraftKey(e) ==
    << Strip(Lower(FieldText(e.name))), e.date, Strip(Lower(FieldText(e.venue_name))) >>

\* positions of the drafts whose identity occurs at no earlier position
FirstOfKey(evs) ==
    {i \in 1..Len(evs) : \A j \in 1..(i - 1) : DraftKey(evs[j]) # DraftKey(evs[i])}

KeepFirstOfKey(evs) ==
    LET I == FirstOfKey(evs)
    IN  [k \in 1..Cardinality(I) |->
            evs[CHOOSE i \in I : Cardinality({j \in I : j < i}) = k - 1]]

\* _deduplicate returned inside parse_events_batch
Deduplicated == ep_out.done /\ deduplicate(ep_out.all_events).raised = NoError

\* the configured brand keywords
BrandKeywords ==
    {Strip(Lower(ep_in.raw_keywords[i])) : i \in 1..Len(ep_in.raw_keywords)} \ {<< >>}

\* the lower-cased name, description and venue of a draft, joined by spaces
BrandText(e) ==
    Lower(FieldText(e.name)) \o <<" ">> \o Lower(FieldText(e.description))
    \o <<" ">> \o Lower(FieldText(e.venue_name))

Mentions(e, kw) ==
    \E i \in 1..Len(BrandText(e)) : \E j \in i..Len(BrandText(e)) :
        SubSeq(BrandText(e), i, j) = kw

\* C12: parse_events_batch returns a list of drafts and never raises,
\* whatever the credential, the model call and the shape of its answer.
C12_ExtractionNeverRaises ==
    ep_out.done => ep_out.raised = NoError

\* C14: an event is marked own-event exactly when its lower-cased name,
\* description and venue contain a configured brand keyword; without
\* keywords no event is marked and every event is returned unchanged.
C14_FlaggedIffKeyword ==
    (ep_out.done /\ ep_out.raised = NoError) =>
        /\ Len(ep_out.events) = Len(ep_out.deduped)
        /\ \A i \in 1..Len(ep_out.events) :
              IF BrandKeywords = {}
              THEN /\ ep_out.events[i] = ep_out.deduped[i]
                   /\ ep_out.events[i].is_own_event # "True"
              ELSE /\ ep_out.events[i].is_own_event \in {"True", "False"}
                   /\ ep_out.events[i].is_own_event = "True"
                        <=> \E kw \in BrandKeywords : Mentions(ep_out.deduped[i], kw)
                   /\ [ep_out.events[i] EXCEPT !.is_own_event = "absent"]
                        = ep_out.deduped[i]

\* keyword "acme": one event marked through its venue only, one not marked
C14_Witness ==
    /\ ep_out.done /\ ep_out.raised = NoError
    /\ BrandKeywords = {<<"a", "c", "m", "e">>}
    /\ \E i \in 1..Len(ep_out.events) :
          /\ ep_out.events[i].is_own_event = "True"
          /\ ep_out.events[i].name = Str(s_Rave)
    /\ \E i \in 1..Len(ep_out.events) : ep_out.events[i].is_own_event = "False"

\* C15: the output of _deduplicate holds no two drafts of the same identity,
\* keeps the first-seen draft of each identity with its fields, in
\* first-seen order, and is a fixed point of _deduplicate.
C15_DedupFirstSeen ==
    Deduplicated =>
        /\ \A i, j \in 1..Len(ep_out.deduped) :
              DraftKey(ep_out.deduped[i]) = DraftKey(ep_out.deduped[j]) => i = j
        /\ ep_out.deduped = KeepFirstOfKey(ep_out.all_events)
        /\ deduplicate(ep_out.deduped).unique = ep_out.deduped

\* two drafts of one identity written differently, the first kept and the
\* second dropped, next to a draft of another identity on the same date
C15_Witness ==
    /\ Deduplicated
    /\ \E i, j \in 1..Len(ep_out.all_events) :
          /\ i < j
          /\ ep_out.all_events[i] # ep_out.all_events[j]
          /\ DraftKey(ep_out.all_events[i]) = DraftKey(ep_out.all_events[j])
          /\ ep_out.all_events[i] \in Range(ep_out.deduped)
          /\ ep_out.all_events[j] \notin Range(ep_out.deduped)
    /\ \E i, j \in 1..Len(ep_out.deduped) :
          /\ i # j
          /\ ep_out.deduped[i].date = ep_out.deduped[j].date

\* ------------------------------------------------------------------------
\* Properties of the Results Aggregator
\* ------------------------------------------------------------------------
\* the Run of this call completed
RunCompleted == RunEnded /\ searches[search_id].status = "completed"

\* the dates on which the extractor marked an event of this Run as own-event
OwnEventDates ==
    {loc.events[i].date : i \in {j \in 1..Len(loc.events) : loc.events[j].is_own_event}}

\* C13: for a completed Run, a day's has_own_event is true exactly when an
\* event of the Run on that day was marked as own-event during extraction.
C13_OwnEventMarkSurvives ==
    RunCompleted =>
        /\ OwnEventDates \subseteq DOMAIN get_results_by_date(search_id)
        /\ \A d \in DOMAIN get_results_by_date(search_id) :
              get_results_by_date(search_id)[d].has_own_event <=> d \in OwnEventDates

\* ------------------------------------------------------------------------
\* Properties of the events and weather_days tables
\* ------------------------------------------------------------------------
\* the identity of an Event row or of an insert_event call
SameEvent(a, b) ==
    /\ a.search_id = b.search_id
    /\ a.name = b.name
    /\ a.date = b.date
    /\ a.venue_name = b.venue_name

SameDay(a, b) == a.search_id = b.search_id /\ a.date = b.date

CallsOf(op) == {k \in 1..Len(db_log) : db_log[k].op = op}

\* the first insert_event call of an identity, the last insert_weather_day
\* call of a (Run, date)
FirstEventCall(r) ==
    CHOOSE k \in CallsOf("insert_event") :
        /\ SameEvent(db_log[k], r)
        /\ \A j \in CallsOf("insert_event") : SameEvent(db_log[j], r) => k <= j

LastWeatherCall(r) ==
    CHOOSE k \in CallsOf("insert_weather_day") :
        /\ SameDay(db_log[k], r)
        /\ \A j \in CallsOf("insert_weather_day") : SameDay(db_log[j], r) => j <= k

\* C16: after any sequence of insert_event and insert_weather_day calls
\* there is at most one Event row per (Run, name, date, venue), an absent
\* venue included, holding the fields of the first insert of that identity;
\* and exactly one WeatherDay row per (Run, date) written, holding the
\* values of the latest write.
C16_OneRowPerIdentity ==
    /\ \A i, j \in 1..Len(events) : SameEvent(events[i], events[j]) => i = j
    /\ \A i \in 1..Len(events) :
          /\ \E k \in CallsOf("insert_event") : SameEvent(db_log[k], events[i])
          /\ events[i].segment = db_log[FirstEventCall(events[i])].segment
    /\ \A k \in CallsOf("insert_weather_day") :
          Cardinality({i \in 1..Len(weather_days) : SameDay(weather_days[i], db_log[k])}) = 1
    /\ \A i \in 1..Len(weather_days) :
          /\ \E k \in CallsOf("insert_weather_day") : SameDay(db_log[k], weather_days[i])
          /\ weather_days[i].outdoor_score
                = db_log[LastWeatherCall(weather_days[i])].outdoor_score
          /\ weather_days[i].recommendation
                = db_log[LastWeatherCall(weather_days[i])].recommendation

\* ------------------------------------------------------------------------
\* Properties of the Weather Enricher
\* ------------------------------------------------------------------------
\* the calendar days of the input range, those from today through the
\* forecast horizon and the others
RangeDays == Range(DaysOf(wx_in.date_from, wx_in.date_to))

NearDays ==
    {dt \in RangeDays : DateLE(wx_in.today, dt)
                        /\ DateLE(dt, AddDays(wx_in.today, ForecastDays))}

FarDays == RangeDays \ NearDays

RecordsOf(dt) ==
    {i \in 1..Len(wx_out.results) : wx_out.results[i].date = DateStr(dt)}

\* C17: whatever the forecast call gives, the result holds exactly one
\* record for each day of the input range and none for another day; a day
\* from today through the horizon comes from the forecast call or, when
\* that failed, from the estimate, every other day from the historical
\* average or the estimate.
C17_EveryDayExactlyOnce ==
    wx_out.done =>
        /\ \A dt \in RangeDays : Cardinality(RecordsOf(dt)) = 1
        /\ Len(wx_out.results) = Cardinality(RangeDays)
        /\ \A dt \in NearDays : \A i \in RecordsOf(dt) :
              wx_out.results[i].data_type = (IF wx_in.forecast.ok THEN "forecast"
                                             ELSE "estimate")
        /\ \A dt \in FarDays : \A i \in RecordsOf(dt) :
              wx_out.results[i].data_type \in {"historical_avg", "estimate"}

\* C18: a day beyond the forecast horizon has provenance historical_avg
\* when the archive call succeeds with entries matching the day, and is
\* estimated only when the archive call fails or nothing matches.
C18_BeyondHorizonHistorical ==
    wx_out.done =>
        \A dt \in FarDays :
            /\ RecordsOf(dt) # {}
            /\ \A i \in RecordsOf(dt) :
                  wx_out.results[i].data_type = (IF wx_in.archive = "match"
                                                 THEN "historical_avg" ELSE "estimate")

\* the recommendation that goes with a score
BandOf(score) ==
    CASE score >= 75 -> "OUTDOOR"
      [] score >= 50 /\ score < 75 -> "EITHER"
      [] score < 50 -> "INDOOR"

\* C20: every record returned has an outdoor score in 0..100 and the
\* recommendation of the band of its score.
C20_ScoreAndRecommendation ==
    wx_out.done =>
        \A i \in 1..Len(wx_out.results) :
            /\ wx_out.results[i].outdoor_score \in 0..100
            /\ wx_out.results[i].recommendation = BandOf(wx_out.results[i].outdoor_score)

\* a range across the horizon: forecast records in the bands OUTDOOR or
\* INDOOR next to an estimate
C20_Witness ==
    /\ wx_out.done
    /\ \E i \in 1..Len(wx_out.results) :
          /\ wx_out.results[i].data_type = "forecast"
          /\ wx_out.results[i].recommendation = "INDOOR"
          /\ wx_out.results[i].outdoor_score < 50
    /\ \E i \in 1..Len(wx_out.results) :
          /\ wx_out.results[i].data_type = "estimate"
          /\ wx_out.results[i].recommendation = "EITHER"

\* ------------------------------------------------------------------------
\* Properties of the outdoor score
\* ------------------------------------------------------------------------
\* the penalties by the mean of temp_max and temp_min (compared through the
\* sum), the precipitation probability and the wind speed
MeanPenalty(temp_max, temp_min) ==
    LET sum == temp_max + temp_min
    IN  CASE sum < 2 * 10 -> 40
          [] sum >= 2 * 10 /\ sum < 2 * 15 -> 20
          [] sum >= 2 * 15 /\ sum < 2 * 18 -> 5
          [] sum > 2 * 35 -> 35
          [] sum > 2 * 30 /\ sum <= 2 * 35 -> 15
          [] OTHER -> 0

PrecipPenalty(p) ==
    CASE p > 70 -> 35 [] p > 50 /\ p <= 70 -> 20 [] p > 30 /\ p <= 50 -> 10 [] OTHER -> 0

GustPenalty(w) ==
    CASE w > 40 -> 25 [] w > 25 /\ w <= 40 -> 10 [] OTHER -> 0

ExpectedScore(i) ==
    LET raw == 100 - MeanPenalty(i.temp_max, i.temp_min) - PrecipPenalty(i.precip_prob)
                   - GustPenalty(i.wind_kmh)
    IN  IF raw < 0 THEN 0 ELSE IF raw > 100 THEN 100 ELSE raw

\* C19: for all integer inputs, 0 and negative temperatures included, the
\* score is 100 minus the three penalties, clamped to 0..100; (24, 18, 10,
\* 10) scores at least 75, and temp_max 38 with precipitation 80 and wind 50
\* scores below 50 for every temp_min.
C19_ScoreFormula ==
    sc_out.done =>
        /\ sc_out.score = ExpectedScore(sc_in)
        /\ sc_in = [temp_max |-> 24, temp_min |-> 18, precip_prob |-> 10, wind_kmh |-> 10]
              => sc_out.score >= 75
        /\ (sc_in.temp_max = 38 /\ sc_in.precip_prob = 80 /\ sc_in.wind_kmh = 50)
              => sc_out.score < 50

\* ------------------------------------------------------------------------
\* Properties of the Results Aggregator
\* ------------------------------------------------------------------------
\* the stored events of the Run asked for that fall on a day
StoredOn(day) ==
    {i \in 1..Len(events) : events[i].search_id = rd_in /\ events[i].date = day}

\* the days for which the Run asked for has a stored event or weather record
StoredDays ==
    {events[i].date : i \in {j \in 1..Len(events) : events[j].search_id = rd_in}}
    \cup {weather_days[i].date :
            i \in {j \in 1..Len(weather_days) : weather_days[j].search_id = rd_in}}

\* the level the classification gives to a count
LevelOf(n) ==
    CASE n = 0 -> "none"
      [] n \in 1..2 -> "low"
      [] n \in 3..5 -> "medium"
      [] OTHER -> "high"

\* C21: for every day returned by get_results_by_date, event_count is the
\* number of events listed for the day (the stored events of the Run on that
\* day), and the competition level is none for 0 events, low for 1 or 2,
\* medium for 3 to 5 and high for 6 or more.
C21_CompetitionByCount ==
    rd_out.done =>
        \A k \in 1..Len(rd_out.results) :
            LET r == rd_out.results[k]
            IN  /\ r.event_count = Len(r.events)
                /\ r.event_count = Cardinality(StoredOn(r.date))
                /\ r.competition_level = LevelOf(r.event_count)

\* a result with a day without events, a day of low and a day of high
\* competition
C21_Witness ==
    /\ rd_out.done
    /\ \E k \in 1..Len(rd_out.results) : rd_out.results[k].competition_level = "none"
    /\ \E k \in 1..Len(rd_out.results) : rd_out.results[k].competition_level = "low"
    /\ \E k \in 1..Len(rd_out.results) :
          /\ rd_out.results[k].competition_level = "high"
          /\ rd_out.results[k].event_count >= 6

\* the calendar day a YYYY-MM-DD text names, as the number yyyymmdd
DigitAt(s, i) == CharRank(SubSeq(s, i, i)) - 48
DayNumber(s) ==
    (DigitAt(s, 1) * 1000 + DigitAt(s, 2) * 100 + DigitAt(s, 3) * 10 + DigitAt(s, 4)) * 10000
    + (DigitAt(s, 6) * 10 + DigitAt(s, 7)) * 100
    + DigitAt(s, 9) * 10 + DigitAt(s, 10)

RECURSIVE SumOf(_, _)
SumOf(f, S) ==
    IF S = {} THEN 0
    ELSE LET x == CHOOSE y \in S : TRUE IN f[x] + SumOf(f, S \ {x})

\* the stored events of a day that have no segment
LackSegment(day) ==
    {i \in StoredOn(day) : events[i].segment = NULL \/ events[i].segment = ""}

\* C25: get_results_by_date returns exactly the days for which the Run has a
\* stored event or a stored weather record, each once, in ascending date
\* order; for each day the segment counts sum to the day's event count, and
\* an event without segment is counted under other.
C25_UnionOfDaysAndHistogram ==
    rd_out.done =>
        /\ {rd_out.results[k].date : k \in 1..Len(rd_out.results)} = StoredDays
        /\ \A j, k \in 1..Len(rd_out.results) :
              j < k => DayNumber(rd_out.results[j].date) < DayNumber(rd_out.results[k].date)
        /\ \A k \in 1..Len(rd_out.results) :
              LET r == rd_out.results[k]
                  other == {i \in StoredOn(r.date) : events[i].segment = "other"}
              IN  /\ SumOf(r.segment_counts, DOMAIN r.segment_counts) = r.event_count
                  /\ \A seg \in DOMAIN r.segment_counts : seg # NULL /\ seg # ""
                  /\ LackSegment(r.date) # {} =>
                        /\ "other" \in DOMAIN r.segment_counts
                        /\ r.segment_counts["other"]
                              = Cardinality(LackSegment(r.date) \cup other)

\* a result of three days over a change of year: one with weather only, one
\* with events only, among them events without segment
C25_Witness ==
    /\ rd_out.done
    /\ Len(rd_out.results) = 3
    /\ \E k \in 1..3 : rd_out.results[k].event_count = 0
    /\ \E k \in 1..3 :
          /\ ~rd_out.results[k].has_weather
          /\ LackSegment(rd_out.results[k].date) # {}
          /\ Cardinality(DOMAIN rd_out.results[k].segment_counts) = 2

\* ------------------------------------------------------------------------
\* Properties of the Page Fetcher
\* ------------------------------------------------------------------------
\* C22: whatever the fetches give, a result of scrape_page is no-content or
\* a text longer than 100 characters and no longer than 15000 characters
\* plus the 16 characters of the truncation marker, and only such texts are
\* returned by scrape_multiple.
C22_NoNearEmptySuccess ==
    /\ \A k \in 1..Len(ps_out.log) :
          LET r == ps_out.log[k].result
          IN  IF r.ok
              THEN /\ r.n + (IF r.marker THEN 16 ELSE 0) > 100
                   /\ r.n + (IF r.marker THEN 16 ELSE 0) <= 15000 + 16
                   /\ r.marker => r.n = 15000
              ELSE r = NoContent
    /\ \A k \in 1..Len(ps_out.results) : ps_out.results[k].content.ok

\* a page fetched by the rendering strategy, found empty and then fetched
\* directly with a truncated text, and a page that gave nothing
C22_Witness ==
    /\ Len(ps_out.log) = 2
    /\ ps_out.log[1].calls = << "dynamic", "static" >>
    /\ ps_out.log[1].result.ok
    /\ ps_out.log[1].result.marker
    /\ ps_out.log[2].calls = << "static" >>
    /\ ~ps_out.log[2].result.ok

\* the domain of the URL is in the script-rendering list
DomainInList(url) ==
    \E k \in 1..Len(js_heavy_domains) : extract_domain(url) = js_heavy_domains[k]

\* C23: a URL whose domain is in the script-rendering list is fetched with
\* the rendering strategy first, and with the direct strategy after it if
\* and only if rendering threw or yielded nothing; a URL whose domain is not
\* in the list is fetched with the direct strategy only, whatever its path
\* or query string holds.
C23_StrategyByDomain ==
    \A k \in 1..Len(ps_out.log) :
        LET e == ps_out.log[k]
        IN  IF DomainInList(e.url)
            THEN /\ e.calls[1] = "dynamic"
                 /\ (e.calls = << "dynamic", "static" >>) <=> e.first_failed
            ELSE e.calls = << "static" >>

\* the URLs scrape_multiple has to attempt
Attempted == SubSeq(ps_in.urls, 1, Min(ps_in.max_pages, Len(ps_in.urls)))

\* the pages of the attempts that gave content
GaveContent(e) == e.result.ok
PagesOf(log) ==
    LET good == SelectSeq(log, GaveContent)
    IN  [k \in 1..Len(good) |-> [url |-> good[k].url, content |-> good[k].result]]

\* C24: scrape_multiple attempts the first max_pages URLs of its list and no
\* other, in order; whatever an attempt gives (an exception included) the
\* call goes on to the next URL and to its return; and the result holds
\* exactly the attempts that gave content, each once, with its text, in
\* input order.
C24_BatchNeverAborts ==
    /\ Len(ps_out.log) <= ps_in.max_pages
    /\ [k \in 1..Len(ps_out.log) |-> ps_out.log[k].url]
          = SubSeq(Attempted, 1, Len(ps_out.log))
    /\ ps_out.results = PagesOf(ps_out.log)
    /\ ~ps_out.done => ENABLED (ScrapePageStep \/ ScrapeMultipleReturn)
    /\ ps_out.done => Len(ps_out.log) = Len(Attempted)

\* a returned call whose list was longer than max_pages, whose first attempt
\* gave nothing and whose second gave a page
C24_Witness ==
    /\ ps_out.done
    /\ Len(ps_in.urls) > ps_in.max_pages
    /\ Len(ps_out.log) = 2
    /\ ~ps_out.log[1].result.ok
    /\ ps_out.log[2].result.ok
    /\ Len(ps_out.results) = 1

\* ------------------------------------------------------------------------
\* Properties of the Pipeline Orchestrator: fetching, persistence, progress
\* ------------------------------------------------------------------------
\* the URLs of the trace's fetch attempts of a source, in order
AttemptsOf(source) ==
    LET FromSource(a) == a.source = source
        sel == SelectSeq(debug.scrape_attempts, FromSource)
    IN  [k \in 1..Len(sel) |-> sel[k].url]

\* the bulk fetch of the search results has been done
BulkDone == pc \notin {"idle", "create", "search", "direct", "bulk"} /\ search_id # 0
             /\ debug.search_results_total = Len(loc.search_results)
             /\ (pc \in {"h_save", "h_status", "exit"} => exc # E_BuildQueries)

\* C26: within one run no URL is fetched more than once: the URLs of the
\* bulk fetch are links of search results, none of them a direct URL or
\* empty, pairwise distinct and at most 25; and once the bulk fetch is done
\* scrape_success plus scrape_fail is the number of URLs it attempted, with
\* scrape_fail not negative.
C26_NoUrlFetchedTwice ==
    LET direct == AttemptsOf("direct")
        bulk == AttemptsOf("search")
        links == {loc.search_results[i].link : i \in 1..Len(loc.search_results)}
    IN  /\ Cardinality(Range(direct) \cup Range(bulk)) = Len(direct) + Len(bulk)
        /\ "" \notin Range(bulk)
        /\ \A c \in DOMAIN CITIES :
              args.city_id = c => Range(bulk) \cap Range(get_direct_urls(CITIES[c].name)) = {}
        /\ Range(bulk) \subseteq links
        /\ Len(bulk) <= 25
        /\ BulkDone =>
              /\ debug.scrape_success + debug.scrape_fail = Len(bulk)
              /\ debug.scrape_fail >= 0
              /\ debug.scrape_success = Len(loc.scraped_pages)

\* a run whose search results held a direct URL, an empty link and more
\* than 25 other links, of which 25 were attempted and one gave nothing
C26_Witness ==
    /\ BulkDone
    /\ Len(AttemptsOf("search")) = 25
    /\ Len(loc.search_results) > 27
    /\ \E i \in 1..Len(loc.search_results) : loc.search_results[i].link = ""
    /\ \E i \in 1..Len(loc.search_results) :
          loc.search_results[i].link \in Range(AttemptsOf("direct"))
    /\ debug.scrape_fail = 1
    /\ debug.scrape_success = 24

\* the Event rows stored for the Run of this call
RowsOfRun == {i \in 1..Len(events) : events[i].search_id = search_id}

\* C27: in a completed Run the number of stored Event rows is the
\* events_extracted count of its trace: every event the batch extractor
\* returned is stored, drafts without name or date included.
C27_EveryExtractedEventStored ==
    RunCompleted =>
        /\ searches[search_id].debug_log = << debug >>
        /\ Cardinality(RowsOfRun) = debug.events_extracted

\* C28: when run_search has created a Run and returns or raises, the status
\* of the Run is completed or failed, never running or pending, whatever
\* persistence call failed during the run or in the handler.
C28_RunLeftTerminal ==
    (search_id # 0 /\ outcome.kind \in {"return", "raise"}) =>
        /\ searches[search_id].status \in {"completed", "failed"}
        /\ searches[search_id].status \notin {"running", "pending"}

\* C29: the progress sink receives 1.0 only in runs that end completed: a
\* run that has left run_search after the sink received 1.0 is completed,
\* not failed.
C29_DoneOnlyWhenCompleted ==
    (RunEnded /\ \E k \in 1..Len(progress) : progress[k] = 100) =>
        /\ searches[search_id].status # "failed"
        /\ searches[search_id].status = "completed"

\* the fractions of a successful run, in percent
SuccessfulRunFractions == << 10, 20, 35, 50, 80, 100 >>

\* the step adds the fraction f to the sink
Delivers(f) ==
    /\ \E k \in 1..Len(progress') : progress'[k] = f
    /\ \A k \in 1..Len(progress) : progress[k] # f

\* C30 (order): the fractions delivered in one run are strictly increasing,
\* lie in [0,1], and are a prefix of the fractions of a successful run, on a
\* failed run too.
C30_FractionsArePrefix ==
    /\ \A k \in 1..Len(progress) : progress[k] >= 0 /\ progress[k] <= 100
    /\ \A j, k \in 1..Len(progress) : j < k => progress[j] < progress[k]
    /\ Len(progress) <= Len(SuccessfulRunFractions)
    /\ progress = SubSeq(SuccessfulRunFractions, 1, Len(progress))

\* C30: the progress fractions of one run are strictly increasing, lie in
\* [0,1] and form a prefix of the fractions of a successful run; and each is
\* delivered only when the stage before it has finished: 0.2 with the search
\* done, 0.35 with the direct fetch done, 0.5 with the bulk fetch done, 0.8
\* with the extraction done, 1.0 with every weather day stored.
C30_ProgressFollowsStages ==
    [][ /\ C30_FractionsArePrefix'
        /\ Delivers(20) => (pc = "search" /\ pc' = "direct"
                             /\ debug'.search_results_total = Len(loc'.search_results))
        /\ Delivers(35) => (pc = "direct" /\ pc' = "bulk"
                             /\ debug'.direct_urls_scraped = Len(loc'.direct_pages))
        /\ Delivers(50) => (pc = "bulk" /\ pc' = "extract"
                             /\ debug'.scrape_success = Len(loc'.scraped_pages))
        /\ Delivers(80) => (pc = "extract" /\ pc' = "store_events"
                             /\ debug'.events_extracted = Len(loc'.events))
        /\ Delivers(100) => (pc = "store_weather" /\ loc.i > Len(loc.weather_data))
      ]_vars

\* a failed run whose extraction raised: the sink received the fractions up
\* to 0.5 and no later one
C30_Witness ==
    /\ RunEnded
    /\ searches[search_id].status = "failed"
    /\ exc = E_Extract
    /\ progress = << 10, 20, 35, 50 >>

====
